---------------------------- MODULE Spec2Model ----------------------------
(***************************************************************************)
(* Statement ingestion pipeline of the Digitalsov ledger                   *)
(* (backend/app/services/csv_importer.py, normalizer.py, categorizer.py,   *)
(* pdf_extractor.py, backend/app/models.py, backend/app/routers).          *)
(*                                                                         *)
(* Strings are TLA+ strings; TLC evaluates Len, SubSeq and \o on them, so  *)
(* the normalizers are computed character by character as the Python code  *)
(* computes them.  SHA-256 is modelled as an injective function: a hash is *)
(* represented by the value that is hashed.                                *)
(***************************************************************************)
EXTENDS Integers, Sequences, FiniteSets, TLC

(***************************************************************************)
(* String primitives (Python str methods used by the services)             *)
(***************************************************************************)
None == "<None>"

Ch(s, i) == SubSeq(s, i, i)

Digits == "0123456789"

UpperAlpha == "ABCDEFGHIJKLMNOPQRSTUVWXYZ"

LowerAlpha == "abcdefghijklmnopqrstuvwxyz"

IsSpace(c) == c = " "

IsDigit(c) == \E i \in 1..Len(Digits) : Ch(Digits, i) = c

DigitVal(c) == (CHOOSE i \in 1..Len(Digits) : Ch(Digits, i) = c) - 1

AllDigits(s) == \A i \in 1..Len(s) : IsDigit(Ch(s, i))

RECURSIVE NumVal(_)
NumVal(s) ==
    IF s = "" THEN 0
    ELSE NumVal(SubSeq(s, 1, Len(s) - 1)) * 10 + DigitVal(Ch(s, Len(s)))

RECURSIVE IntToStr(_)
IntToStr(n) ==
    IF n < 10 THEN Ch(Digits, n + 1)
    ELSE IntToStr(n \div 10) \o Ch(Digits, (n % 10) + 1)

RECURSIVE ZeroPad(_, _)
ZeroPad(s, width) == IF Len(s) >= width THEN s ELSE ZeroPad("0" \o s, width)

LowerCh(c) ==
    IF \E i \in 1..Len(UpperAlpha) : Ch(UpperAlpha, i) = c
    THEN Ch(LowerAlpha, CHOOSE i \in 1..Len(UpperAlpha) : Ch(UpperAlpha, i) = c)
    ELSE c

\* the concatenation of F(lo), ..., F(hi), by halves
RECURSIVE Concat(_, _, _)
Concat(F(_), lo, hi) ==
    IF lo > hi THEN ""
    ELSE IF lo = hi THEN F(lo)
    ELSE Concat(F, lo, (lo + hi) \div 2) \o Concat(F, ((lo + hi) \div 2) + 1, hi)

\* the number of characters at the start (at the end) of s that satisfy P
LeadingCount(s, P(_)) ==
    CHOOSE k \in 0..Len(s) :
        /\ \A i \in 1..k : P(Ch(s, i))
        /\ (k < Len(s) => ~P(Ch(s, k + 1)))

TrailingCount(s, P(_)) ==
    CHOOSE k \in 0..Len(s) :
        /\ \A i \in (Len(s) - k + 1)..Len(s) : P(Ch(s, i))
        /\ (k < Len(s) => ~P(Ch(s, Len(s) - k)))

Lower(s) == LET F(i) == LowerCh(Ch(s, i)) IN Concat(F, 1, Len(s))

LStrip(s) == SubSeq(s, LeadingCount(s, IsSpace) + 1, Len(s))

RStrip(s) == SubSeq(s, 1, Len(s) - TrailingCount(s, IsSpace))

Strip(s) == RStrip(LStrip(s))

StartsWith(s, p) == Len(s) >= Len(p) /\ SubSeq(s, 1, Len(p)) = p

EndsWith(s, p) == Len(s) >= Len(p) /\ SubSeq(s, Len(s) - Len(p) + 1, Len(s)) = p

Contains(s, p) == \E i \in 1..(Len(s) - Len(p) + 1) : SubSeq(s, i, i + Len(p) - 1) = p

Drop(s, k) == SubSeq(s, k + 1, Len(s))

RemoveCh(s, c) ==
    LET F(i) == IF Ch(s, i) = c THEN "" ELSE Ch(s, i) IN Concat(F, 1, Len(s))

ReplaceCh(s, c, d) ==
    LET F(i) == IF Ch(s, i) = c THEN d ELSE Ch(s, i) IN Concat(F, 1, Len(s))

\* re.sub(r"\s+", " ", s): one blank for the first of a run, none for the others
CollapseSpaces(s) ==
    LET F(i) == IF ~IsSpace(Ch(s, i)) THEN Ch(s, i)
                ELSE IF i > 1 /\ IsSpace(Ch(s, i - 1)) THEN "" ELSE " "
    IN  Concat(F, 1, Len(s))

(***************************************************************************)
(* normalizer.py: date parsing                                             *)
(***************************************************************************)
\* format strings of _DATE_FORMATS, split into directives and literal characters
_DATE_FORMATS ==
    << <<"%m", "/", "%d", "/", "%Y">>,
       <<"%Y", "-", "%m", "-", "%d">>,
       <<"%d", "/", "%m", "/", "%Y">>,
       <<"%m", "-", "%d", "-", "%Y">>,
       <<"%d", "-", "%m", "-", "%Y">>,
       <<"%Y", "/", "%m", "/", "%d">>,
       <<"%m", "/", "%d", "/", "%y">>,
       <<"%d", "-", "%b", "-", "%Y">>,
       <<"%d", " ", "%b", " ", "%Y">>,
       <<"%b", " ", "%d", ",", " ", "%Y">>,
       <<"%B", " ", "%d", ",", " ", "%Y">>,
       <<"%Y", "-", "%m", "-", "%d", "T", "%H", ":", "%M", ":", "%S">>,
       <<"%Y", "-", "%m", "-", "%d", "T", "%H", ":", "%M", ":", "%S", ".", "%f">> >>

MonthAbbr ==
    <<"jan", "feb", "mar", "apr", "may", "jun",
      "jul", "aug", "sep", "oct", "nov", "dec">>

MonthFull ==
    <<"january", "february", "march", "april", "may", "june",
      "july", "august", "september", "october", "november", "december">>

\* Numeric directives of _strptime: the digit counts a directive accepts and the
\* values allowed for each count (the regular expressions of Python's _strptime).
NumericField(t, k, v) ==
    CASE t = "%m" -> (k = 2 /\ v \in 1..12) \/ (k = 1 /\ v \in 1..9)
      [] t = "%d" -> (k = 2 /\ v \in 1..31) \/ (k = 1 /\ v \in 1..9)
      [] t = "%Y" -> k = 4
      [] t = "%y" -> k = 2
      [] t = "%H" -> (k = 2 /\ v \in 0..23) \/ k = 1
      [] t = "%M" -> (k = 2 /\ v \in 0..59) \/ k = 1
      [] t = "%S" -> (k = 2 /\ v \in 0..61) \/ k = 1
      [] t = "%f" -> k \in 1..6
      [] OTHER -> FALSE

\* <<consumed length, value>> for every way directive t matches a prefix of s
FieldMatches(t, s) ==
    IF t \in {"%b", "%B"}
    THEN LET names == IF t = "%b" THEN MonthAbbr ELSE MonthFull
         IN  {<<Len(names[i]), i>> : i \in {j \in 1..12 : StartsWith(Lower(s), names[j])}}
    ELSE {<<k, NumVal(SubSeq(s, 1, k))>> :
            k \in {j \in 1..6 : /\ j <= Len(s)
                                /\ AllDigits(SubSeq(s, 1, j))
                                /\ NumericField(t, j, NumVal(SubSeq(s, 1, j)))}}

SetField(acc, t, v) ==
    CASE t \in {"%m", "%b", "%B"} -> [acc EXCEPT !.m = v]
      [] t = "%d" -> [acc EXCEPT !.d = v]
      [] t = "%Y" -> [acc EXCEPT !.Y = v]
      [] t = "%y" -> [acc EXCEPT !.Y = IF v < 69 THEN 2000 + v ELSE 1900 + v]
      [] OTHER -> acc

\* every way the whole of s matches the format
RECURSIVE StrptimeMatches(_, _, _)
StrptimeMatches(s, fmt, acc) ==
    IF fmt = <<>> THEN (IF s = "" THEN {acc} ELSE {})
    ELSE LET t == Head(fmt)
         IN  IF t = " "
             THEN IF s # "" /\ IsSpace(Head(s))
                  THEN StrptimeMatches(LStrip(s), Tail(fmt), acc)
                  ELSE {}
             ELSE IF Len(t) = 1
             THEN IF s # "" /\ LowerCh(Head(s)) = LowerCh(t)
                  THEN StrptimeMatches(Tail(s), Tail(fmt), acc)
                  ELSE {}
             ELSE UNION {StrptimeMatches(Drop(s, km[1]), Tail(fmt), SetField(acc, t, km[2])) :
                            km \in FieldMatches(t, s)}

IsLeap(y) == y % 4 = 0 /\ (y % 100 # 0 \/ y % 400 = 0)

DaysInMonth(y, m) ==
    IF m = 2 THEN (IF IsLeap(y) THEN 29 ELSE 28)
    ELSE IF m \in {4, 6, 9, 11} THEN 30 ELSE 31

\* datetime.strptime(v, fmt): the parsed dates (empty for ValueError)
strptime(v, fmt) ==
    {a \in StrptimeMatches(v, fmt, [Y |-> 1900, m |-> 1, d |-> 1]) :
        a.Y >= 1 /\ a.d <= DaysInMonth(a.Y, a.m)}

\* strftime("%Y-%m-%d")
strftime(a) ==
    ZeroPad(IntToStr(a.Y), 4) \o "-" \o ZeroPad(IntToStr(a.m), 2) \o "-" \o ZeroPad(IntToStr(a.d), 2)

\* a parse_date that returns nothing for a value of no known format
ParseDateOrEmpty(value) ==
    IF \E i \in 1..Len(_DATE_FORMATS) : strptime(Strip(value), _DATE_FORMATS[i]) # {}
    THEN strftime(CHOOSE r \in strptime(Strip(value),
                     _DATE_FORMATS[CHOOSE i \in 1..Len(_DATE_FORMATS) :
                        /\ strptime(Strip(value), _DATE_FORMATS[i]) # {}
                        /\ \A j \in 1..(i - 1) : strptime(Strip(value), _DATE_FORMATS[j]) = {}]) : TRUE)
    ELSE ""

\* the loop of parse_date over the formats that parse v, in their order
TryFormats(v, ok) ==
    IF ok = {} THEN v
    ELSE strftime(CHOOSE r \in strptime(v, _DATE_FORMATS[CHOOSE i \in ok : \A j \in ok : i <= j]) : TRUE)

\* parse_date: first format that matches, else the stripped value as it is
parse_date(value) ==
    TryFormats(Strip(value),
               {i \in 1..Len(_DATE_FORMATS) : strptime(Strip(value), _DATE_FORMATS[i]) # {}})

(***************************************************************************)
(* normalizer.py: amount parsing                                           *)
(*                                                                         *)
(* A Python float is a record: k = "fin" (finite, sign neg and magnitude   *)
(* mag in units of 10^-FracDigits, so that -0.0 and 0.0 are distinct       *)
(* values), "inf", "nan", or "err" for a raised ValueError.  Cells are     *)
(* ASCII and carry no exponent or underscore, and at most FracDigits       *)
(* fractional digits; TLC integers are 32-bit, which bounds the amounts.    *)
(***************************************************************************)
FracDigits == 4

RECURSIVE Pow10(_)
Pow10(n) == IF n = 0 THEN 1 ELSE 10 * Pow10(n - 1)

Unit == Pow10(FracDigits)

Fin(neg, mag) == [k |-> "fin", neg |-> neg, mag |-> mag]

Inf(neg) == [k |-> "inf", neg |-> neg, mag |-> 0]

NaN == [k |-> "nan", neg |-> FALSE, mag |-> 0]

ValueError == [k |-> "err", neg |-> FALSE, mag |-> 0]

\* -x on floats
FNeg(a) == IF a.k \in {"fin", "inf"} THEN [a EXCEPT !.neg = ~a.neg] ELSE a

\* abs(x)
FAbs(a) == IF a.k \in {"fin", "inf"} THEN [a EXCEPT !.neg = FALSE] ELSE a

\* signed magnitude of a finite float
FVal(a) == IF a.neg THEN -a.mag ELSE a.mag

\* x - y on floats (IEEE: x - x is +0.0, inf - inf is nan)
FSub(a, b) ==
    IF a.k = "nan" \/ b.k = "nan" THEN NaN
    ELSE IF a.k = "inf" /\ b.k = "inf" THEN (IF a.neg = b.neg THEN NaN ELSE a)
    ELSE IF a.k = "inf" THEN a
    ELSE IF b.k = "inf" THEN FNeg(b)
    ELSE LET d == FVal(a) - FVal(b)
         IN  IF d = 0 THEN Fin(a.neg /\ ~b.neg, 0)
             ELSE IF d < 0 THEN Fin(TRUE, -d) ELSE Fin(FALSE, d)

\* float(v) for the literal after the sign: digits [. digits] | . digits
UnsignedFloat(v) ==
    LET dots == {i \in 1..Len(v) : Ch(v, i) = "."}
        dot  == IF dots = {} THEN Len(v) + 1 ELSE CHOOSE i \in dots : \A j \in dots : i <= j
        ip   == SubSeq(v, 1, dot - 1)
        fp   == SubSeq(v, dot + 1, Len(v))
        fpN  == SubSeq(fp \o "000000000000", 1, FracDigits)
    IN  IF Lower(v) \in {"inf", "infinity"} THEN Inf(FALSE)
        ELSE IF Lower(v) = "nan" THEN NaN
        ELSE IF AllDigits(ip) /\ AllDigits(fp) /\ Len(ip) + Len(fp) > 0
        THEN Fin(FALSE, NumVal(ip) * Unit + NumVal(fpN))
        ELSE ValueError

\* float(v): surrounding blanks, an optional sign, then the literal
PyFloat(value) ==
    LET v == Strip(value)
    IN  IF v # "" /\ Head(v) = "-" THEN FNeg(UnsignedFloat(Tail(v)))
        ELSE IF v # "" /\ Head(v) = "+" THEN UnsignedFloat(Tail(v))
        ELSE UnsignedFloat(v)

\* \d{1,3}(\.\d{3})*  on the whole of s
RECURSIVE DotGroups(_)
DotGroups(s) ==
    IF s = "" THEN TRUE
    ELSE Len(s) >= 4 /\ Head(s) = "." /\ AllDigits(SubSeq(s, 2, 4)) /\ DotGroups(Drop(s, 4))

LeadingDigits(s) == CHOOSE n \in 0..Len(s) :
                        /\ AllDigits(SubSeq(s, 1, n))
                        /\ (n < Len(s) => ~IsDigit(Ch(s, n + 1)))

\* _EUROPEAN_RE = ^-?\d{1,3}(\.\d{3})*(,\d{1,2})$
_EUROPEAN_RE(v) ==
    LET w == IF v # "" /\ Head(v) = "-" THEN Tail(v) ELSE v
        commas == {i \in 1..Len(w) : Ch(w, i) = ","}
    IN  /\ Cardinality(commas) = 1
        /\ LET c == CHOOSE i \in commas : TRUE
               head == SubSeq(w, 1, c - 1)
               tail == Drop(w, c)
           IN  /\ Len(tail) \in 1..2 /\ AllDigits(tail)
               /\ LeadingDigits(head) \in 1..3
               /\ DotGroups(Drop(head, LeadingDigits(head)))

\* re.sub(r",(?=\d{3}(?:[,.]|$))", "", v)
StripThousands(v) ==
    LET F(i) == IF /\ Ch(v, i) = ","
                   /\ Len(v) >= i + 3 /\ AllDigits(SubSeq(v, i + 1, i + 3))
                   /\ (Len(v) = i + 3 \/ Ch(v, i + 4) \in {",", "."})
                THEN "" ELSE Ch(v, i)
    IN  Concat(F, 1, Len(v))

\* v.lstrip("$...") for the currency symbols of the ASCII alphabet
LStripCurrency(v) ==
    LET P(c) == c = "$" IN SubSeq(v, LeadingCount(v, P) + 1, Len(v))

\* parse_amount: a float, or ValueError
parse_amount(value) ==
    LET v0 == Strip(value)
        negative == StartsWith(v0, "(") /\ EndsWith(v0, ")")
        v1 == IF negative THEN SubSeq(v0, 2, Len(v0) - 1) ELSE v0
        v2 == RemoveCh(Strip(LStripCurrency(v1)), " ")
        v3 == IF _EUROPEAN_RE(v2)
              THEN ReplaceCh(RemoveCh(v2, "."), ",", ".")
              ELSE ReplaceCh(StripThousands(v2), ",", ".")
        amount == PyFloat(v3)
    IN  IF v0 = "" THEN ValueError
        ELSE IF negative THEN FNeg(amount) ELSE amount

\* f"{amount:.4f}"
Fmt4(a) ==
    LET cut  == Pow10(FracDigits - 4)
        q0   == a.mag \div cut
        r    == a.mag % cut
        q    == IF 2 * r > cut \/ (2 * r = cut /\ q0 % 2 = 1) THEN q0 + 1 ELSE q0
        sign == IF a.neg THEN "-" ELSE ""
    IN  CASE a.k = "fin" -> sign \o IntToStr(q \div 10000) \o "." \o ZeroPad(IntToStr(q % 10000), 4)
          [] a.k = "inf" -> sign \o "inf"
          [] OTHER -> "nan"

\* a conversion that drops the fraction of a cent
ToCentsTruncated(a) ==
    CASE a.k = "fin" -> [exc |-> None, v |-> IF a.neg THEN -(a.mag \div (Unit \div 100))
                                              ELSE a.mag \div (Unit \div 100)]
      [] a.k = "inf" -> [exc |-> "InvalidOperation", v |-> 0]
      [] OTHER -> [exc |-> "ValueError", v |-> 0]

\* to_cents: Decimal(str(amount)) * 100 quantized ROUND_HALF_UP, then int().
\* exc names the exception raised: quantize of an infinity signals
\* decimal.InvalidOperation, int() of a NaN raises ValueError.
to_cents(a) ==
    LET c == (a.mag + (Unit \div 200)) \div (Unit \div 100)
    IN  CASE a.k = "fin" -> [exc |-> None, v |-> IF a.neg THEN -c ELSE c]
          [] a.k = "inf" -> [exc |-> "InvalidOperation", v |-> 0]
          [] OTHER -> [exc |-> "ValueError", v |-> 0]

\* normalize_description
normalize_description(raw) == CollapseSpaces(Strip(Lower(raw)))

\* compute_file_hash: SHA-256 of the bytes, represented by the bytes
compute_file_hash(data) == <<"sha256", data>>

\* compute_fingerprint: SHA-256 of the canonical string, represented by that string
compute_fingerprint(posted_date, description_raw, amount) ==
    posted_date \o "|" \o Strip(description_raw) \o "|" \o Fmt4(amount)

_ZERO == {"", "0", "0.0", "0.00", "-0", "-0.0", "-0.00"}

\* the return of parse_split_amount for the parsed debit and credit, where an
\* error stands for None
SplitNet(debit, credit) ==
    IF debit.k # "err" /\ credit.k # "err" THEN FSub(credit, debit)
    ELSE IF credit.k # "err" THEN credit
    ELSE IF debit.k # "err" THEN FNeg(debit)
    ELSE ValueError

\* a side that keeps the sign of its cell
SplitSideSigned(str) == IF str \notin _ZERO THEN parse_amount(str) ELSE ValueError

\* abs(parse_amount(str)) unless str is a zero, else None
SplitSide(str) == IF str \notin _ZERO THEN FAbs(parse_amount(str)) ELSE ValueError

\* parse_split_amount: credit - debit of the absolute values, or ValueError
parse_split_amount(debit_val, credit_val) ==
    SplitNet(SplitSide(Strip(debit_val)), SplitSide(Strip(credit_val)))

(***************************************************************************)
(* Uploaded files.  The bytes of an upload are represented by what they    *)
(* hold: a CSV file by its header line and its data rows (header -> cell), *)
(* a text statement by its lines.                                          *)
(***************************************************************************)
Row3(d, desc, a) == [Date |-> d, Description |-> desc, Amount |-> a]

Row4(d, desc, deb, cr) == [Date |-> d, Description |-> desc, Debit |-> deb, Credit |-> cr]

PayPalRow(d, name, type, status, net, subject, impact) ==
    [Date |-> d, Name |-> name, Type |-> type, Status |-> status, Currency |-> "USD",
     Net |-> net, Subject |-> subject] @@ ("Balance Impact" :> impact)

Csv(headers, rows) == [kind |-> "csv", headers |-> headers, rows |-> rows, lines |-> <<>>]

Text(lines) == [kind |-> "text", headers |-> <<>>, rows |-> <<>>, lines |-> lines]

\* the three-row file of the end-to-end scenario: two identical rows and a third
ScenarioCsv ==
    Csv(<<"Date", "Description", "Amount">>,
        << Row3("01/15/2026", "STARBUCKS #123", "-4.50"),
           Row3("01/15/2026", "STARBUCKS #123", "-4.50"),
           Row3("01/16/2026", "PAYROLL DEPOSIT", "2000.00") >>)

\* a row of ScenarioCsv in another date and amount spelling, a date of no known
\* format, a missing cell and an amount that does not parse
OverlapCsv ==
    Csv(<<"Date", "Description", "Amount">>,
        << Row3("2026-01-15", "STARBUCKS #123", "-4.5"),
           Row3("soon", "RENT", "-12.00"),
           Row3("01/17/2026", "", "3.00"),
           Row3("01/17/2026", "FEE", "abc") >>)

\* an amount cell that float() accepts and to_cents does not
InfCsv ==
    Csv(<<"Date", "Description", "Amount">>,
        << Row3("01/18/2026", "COFFEE", "3.00"),
           Row3("01/18/2026", "WIRE", "inf") >>)

SplitCsv ==
    Csv(<<"Date", "Description", "Debit", "Credit">>,
        << Row4("01/15/2026", "STARBUCKS #123", "4.50", ""),
           Row4("01/19/2026", "REFUND", "", "0") >>)

PayPalCsv ==
    Csv(<<"Date", "Name", "Type", "Status", "Currency", "Net", "Subject", "Balance Impact">>,
        << PayPalRow("01/15/2026", "STARBUCKS #123", "Express Checkout Payment", "Completed", "-4.50", "", "Debit"),
           PayPalRow("01/16/2026", "Acme", "General Payment", "Pending", "-9.00", "Invoice", "Debit"),
           PayPalRow("01/17/2026", "", "General Withdrawal - Bank Account", "Completed", "-50.00", "", "Debit"),
           PayPalRow("01/18/2026", "Employer", "General Payment", "Completed", "75.00", "", "Credit"),
           PayPalRow("01/19/2026", "Bookshop", "Express Checkout Payment", "completed", "-7.00", "", "Debit") >>)

StatementTxt ==
    Text(<< "Date Description Amount",
            "01/15/26 STARBUCKS #123 -4.50" >>)

Files == {ScenarioCsv, OverlapCsv, InfCsv, SplitCsv, PayPalCsv, StatementTxt}

\* row.get(col) or ""
Get(row, col) == IF col \in DOMAIN row THEN row[col] ELSE ""

\* the first comma-separated field of a line
FirstField(line) ==
    LET P(c) == c # "," IN SubSeq(line, 1, LeadingCount(line, P))

\* content.decode("utf-8-sig") and csv.DictReader: the header names and the rows.
\* A text statement read as CSV has its first line as the header row.
DictReader(content) ==
    IF content.kind = "csv"
    THEN [headers |-> content.headers, rows |-> content.rows]
    ELSE LET h == FirstField(content.lines[1])
         IN  IF content.lines = <<>> THEN [headers |-> <<>>, rows |-> <<>>]
             ELSE [headers |-> <<h>>,
                   rows |-> [i \in 1..(Len(content.lines) - 1) |->
                                [c \in {h} |-> FirstField(content.lines[i + 1])]]]

Range(f) == {f[i] : i \in DOMAIN f}

(***************************************************************************)
(* csv_importer.py: column mapping                                         *)
(***************************************************************************)
COLUMN_MAPPERS ==
    [generic |->
        [posted_date |-> <<"Date", "Transaction Date", "Posted Date", "Trans. Date", "Posting Date">>,
         description_raw |-> <<"Description", "Payee", "Memo", "Narrative", "Details", "Transaction Description">>,
         amount |-> <<"Amount", "Transaction Amount">>,
         currency |-> <<"Currency", "Ccy">>],
     chase |->
        [posted_date |-> <<"Transaction Date">>,
         description_raw |-> <<"Description">>,
         amount |-> <<"Amount">>,
         currency |-> <<>>]]

_DEFAULT_CURRENCY == "USD"

\* resolve_column: the header of the first candidate found, ignoring case and
\* surrounding blanks; None when there is none
RECURSIVE resolve_column(_, _)
resolve_column(headers, candidates) ==
    IF candidates = <<>> THEN None
    ELSE LET hit == {i \in 1..Len(headers) :
                        Lower(Strip(headers[i])) = Lower(Strip(Head(candidates)))}
         IN  IF hit # {}
             THEN headers[CHOOSE i \in hit : \A j \in hit : j <= i]
             ELSE resolve_column(headers, Tail(candidates))

\* the column mappings a caller may supply (mapping.get(k) or "")
Mapping(type, amount, debit, credit) ==
    [posted_date |-> "Date", description_raw |-> "Description", amount_type |-> type,
     amount |-> amount, debit |-> debit, credit |-> credit, currency |-> ""]

SingleMapping == Mapping("single", "Amount", "", "")

SplitMapping == Mapping("split", "", "Debit", "Credit")

NoAmountMapping == Mapping("single", "", "", "")

NoSplitMapping == Mapping("split", "", "", "")

NoMapping == Mapping("", "", "", "")

Mappings == {SingleMapping, SplitMapping, NoAmountMapping, NoSplitMapping}

(***************************************************************************)
(* pdf_extractor.py: line-based text extraction                            *)
(***************************************************************************)
\* s.split(): the blank-separated words of s
RECURSIVE Words(_)
Words(s) ==
    LET t == LStrip(s)
        P(c) == ~IsSpace(c)
        n == LeadingCount(t, P)
    IN  IF t = "" THEN <<>> ELSE <<SubSeq(t, 1, n)>> \o Words(Drop(t, n))

\* position of the last blank of s (0 when there is none)
LastSpace(s) ==
    IF \E i \in 1..Len(s) : IsSpace(Ch(s, i))
    THEN CHOOSE i \in 1..Len(s) : IsSpace(Ch(s, i)) /\ \A j \in (i + 1)..Len(s) : ~IsSpace(Ch(s, j))
    ELSE 0

\* _RE_YE_COLUMN_HEADER.match on a stripped line
_RE_YE_COLUMN_HEADER(l) == Words(Lower(l)) = <<"date", "description", "location", "amount">>

\* _RE_TABULAR_HEADER.search
_RE_TABULAR_HEADER(l) == Contains(CollapseSpaces(Lower(l)), "date description amount running bal")

\* _RE_SECTION_HEADER.match on a stripped line
_RE_SECTION_HEADER(l) == Words(Lower(l)) = <<"date", "description", "amount">>

\* \d{a,b}/\d{a,b}/\d{ymin,ymax} on the whole of tok
SlashDate(tok, a, b, ymin, ymax) ==
    \E i, j \in 1..Len(tok) :
        /\ i < j /\ Ch(tok, i) = "/" /\ Ch(tok, j) = "/"
        /\ AllDigits(SubSeq(tok, 1, i - 1)) /\ (i - 1) \in a..b
        /\ AllDigits(SubSeq(tok, i + 1, j - 1)) /\ (j - i - 1) \in a..b
        /\ AllDigits(Drop(tok, j)) /\ (Len(tok) - j) \in ymin..ymax

\* -?[\d,]+\.\d{2} on the whole of tok (minus: whether the sign is allowed)
AmountToken(tok, minus) ==
    LET t == IF minus /\ tok # "" /\ Head(tok) = "-" THEN Tail(tok) ELSE tok
        body == SubSeq(t, 1, Len(t) - 3)
    IN  /\ Len(t) >= 4
        /\ Ch(t, Len(t) - 2) = "." /\ AllDigits(Drop(t, Len(t) - 2))
        /\ \A i \in 1..Len(body) : IsDigit(Ch(body, i)) \/ Ch(body, i) = ","

\* a line "<date> <rest>": [ok, date, rest] for ^(date)\s+(.+)$ on a stripped line
DateLine(line, a, b, ymin, ymax) ==
    LET ws  == Words(line)
        tok == IF ws = <<>> THEN "" ELSE ws[1]
    IN  IF Len(ws) >= 2 /\ SlashDate(tok, a, b, ymin, ymax)
        THEN [ok |-> TRUE, date |-> tok, rest |-> LStrip(Drop(line, Len(tok)))]
        ELSE [ok |-> FALSE, date |-> "", rest |-> ""]

\* _RE_DATE_LINE
_RE_DATE_LINE(line) == DateLine(line, 1, 2, 2, 4)

\* _RE_FULL_DATE
_RE_FULL_DATE(line) == DateLine(line, 2, 2, 4, 4)

\* _RE_AMOUNT_END = ^(.*?)\s+(-?[\d,]+\.\d{2})\s*$ : [ok, desc, amount]
_RE_AMOUNT_END(str) ==
    LET s  == RStrip(str)
        sp == LastSpace(s)
    IN  IF sp > 0 /\ AmountToken(Drop(s, sp), TRUE)
        THEN [ok |-> TRUE, desc |-> RStrip(SubSeq(s, 1, sp - 1)), amount |-> Drop(s, sp)]
        ELSE [ok |-> FALSE, desc |-> "", amount |-> ""]

\* number of blanks that end s
TrailingSpaces(s) == TrailingCount(s, IsSpace)

\* _RE_TWO_NUMS = ^(.*?)\s{3,}(amount)\s{3,}(amount)\s*$ : [ok, desc, amount]
_RE_TWO_NUMS(str) ==
    LET s    == RStrip(str)
        sp2  == LastSpace(s)
        left == SubSeq(s, 1, sp2)
        mid  == RStrip(left)
        sp1  == LastSpace(mid)
        head == SubSeq(mid, 1, sp1)
    IN  IF /\ sp2 > 0 /\ AmountToken(Drop(s, sp2), TRUE) /\ TrailingSpaces(left) >= 3
           /\ sp1 > 0 /\ AmountToken(Drop(mid, sp1), TRUE) /\ TrailingSpaces(head) >= 3
        THEN [ok |-> TRUE, desc |-> RStrip(head), amount |-> Drop(mid, sp1)]
        ELSE [ok |-> FALSE, desc |-> "", amount |-> ""]

\* the rest of _RE_YE_DATE_LINE after its date group d
YearEndMatch(d) ==
    LET s  == RStrip(d.rest)
        sp == LastSpace(s)
    IN  IF d.ok /\ sp > 0 /\ AmountToken(Drop(s, sp), FALSE)
        THEN [ok |-> TRUE, date |-> d.date, desc |-> RStrip(SubSeq(s, 1, sp - 1)), amount |-> Drop(s, sp)]
        ELSE [ok |-> FALSE, date |-> "", desc |-> "", amount |-> ""]

\* _RE_YE_DATE_LINE = ^(\d{2}/\d{2}/\d{2})\s+(.+?)\s+([\d,]+\.\d{2})\s*$
_RE_YE_DATE_LINE(line) == YearEndMatch(DateLine(line, 2, 2, 2, 2))

_TEXT_NOISE_PREFIXES ==
    {"total ", "beginning balance", "ending balance", "opening balance", "closing balance",
     "deposits and other", "withdrawals and other", "account number", "page ",
     "statement period", "statement date", "customer service", "please see",
     "for questions", "for more information"}

_TEXT_NOISE_CONTAINS == {"- continued", "continued on next", "continued on page"}

_is_text_noise(line) ==
    \/ \E q \in _TEXT_NOISE_PREFIXES : StartsWith(Lower(line), q)
    \/ \E q \in _TEXT_NOISE_CONTAINS : Contains(Lower(line), q)

RStripBackslash(s) ==
    LET P(c) == c = "\\" IN SubSeq(s, 1, Len(s) - TrailingCount(s, P))

\* the transaction of a date line of the tabular layout, given the match nm of
\* the two trailing numbers: the first is the amount
TabularAmounts(date, nm) ==
    IF ~nm.ok THEN <<>>
    ELSE <<Row3(date, Strip(RStripBackslash(nm.desc)), RemoveCh(nm.amount, ","))>>

\* the transaction of one line of the tabular layout, given its date match dm
TabularRow(dm) ==
    IF ~dm.ok \/ _is_text_noise(Strip(dm.rest)) THEN <<>>
    ELSE TabularAmounts(dm.date, _RE_TWO_NUMS(Strip(dm.rest)))

\* _parse_tabular, from line i on
RECURSIVE _parse_tabular(_, _, _)
_parse_tabular(all_lines, i, in_section) ==
    IF i > Len(all_lines) THEN <<>>
    ELSE IF Strip(all_lines[i]) = "" THEN _parse_tabular(all_lines, i + 1, in_section)
    ELSE IF _RE_TABULAR_HEADER(Strip(all_lines[i])) THEN _parse_tabular(all_lines, i + 1, TRUE)
    ELSE (IF in_section THEN TabularRow(_RE_FULL_DATE(Strip(all_lines[i]))) ELSE <<>>)
         \o _parse_tabular(all_lines, i + 1, in_section)

\* the transaction of one line of the year-end layout, given its match m: every
\* amount is an outflow
YearEndRow(m) ==
    IF ~m.ok THEN <<>> ELSE <<Row3(m.date, Strip(m.desc), "-" \o RemoveCh(m.amount, ","))>>

\* _parse_year_end_summary, from line i on
RECURSIVE _parse_year_end_summary(_, _)
_parse_year_end_summary(all_lines, i) ==
    IF i > Len(all_lines) THEN <<>>
    ELSE YearEndRow(_RE_YE_DATE_LINE(Strip(all_lines[i])))
         \o _parse_year_end_summary(all_lines, i + 1)

\* the transaction a date line opens, given the amount match am of its rest
SectionOpenWith(date, rest, am) ==
    << IF am.ok THEN Row3(date, Strip(am.desc), RemoveCh(am.amount, ","))
       ELSE Row3(date, rest, "") >>

\* the transaction a date line opens, given its date match dm
SectionOpen(dm) == SectionOpenWith(dm.date, Strip(dm.rest), _RE_AMOUNT_END(Strip(dm.rest)))

\* a continuation that is kept even when no transaction is open
SectionContinueOpens(current, line, cm) ==
    IF current = <<>> THEN <<Row3("", line, IF cm.ok THEN RemoveCh(cm.amount, ",") ELSE "")>>
    ELSE IF current[1].Amount = "" /\ cm.ok
    THEN <<Row3(current[1].Date, Strip(current[1].Description \o " " \o cm.desc),
                RemoveCh(cm.amount, ","))>>
    ELSE <<Row3(current[1].Date, Strip(current[1].Description \o " " \o line), current[1].Amount)>>

\* the open transaction after a continuation line, given the amount match cm of
\* the line
SectionContinue(current, line, cm) ==
    IF current = <<>> THEN current
    ELSE IF current[1].Amount = "" /\ cm.ok
    THEN <<Row3(current[1].Date, Strip(current[1].Description \o " " \o cm.desc),
                RemoveCh(cm.amount, ","))>>
    ELSE <<Row3(current[1].Date, Strip(current[1].Description \o " " \o line), current[1].Amount)>>

\* the loop of _parse_section_based from line i on: transactions closed so far
\* are in done, the open one in current (<<>> for None)
RECURSIVE SectionLoop(_, _, _, _, _)
SectionLoop(all_lines, i, in_section, done, current) ==
    IF i > Len(all_lines) THEN done \o current
    ELSE IF Strip(all_lines[i]) = "" THEN SectionLoop(all_lines, i + 1, in_section, done, current)
    ELSE IF _RE_SECTION_HEADER(Strip(all_lines[i]))
         THEN SectionLoop(all_lines, i + 1, TRUE, done, current)
    ELSE IF ~in_section \/ _is_text_noise(Strip(all_lines[i]))
         THEN SectionLoop(all_lines, i + 1, in_section, done, current)
    ELSE IF _RE_DATE_LINE(Strip(all_lines[i])).ok
         THEN SectionLoop(all_lines, i + 1, in_section, done \o current,
                          SectionOpen(_RE_DATE_LINE(Strip(all_lines[i]))))
    ELSE SectionLoop(all_lines, i + 1, in_section, done,
                     SectionContinue(current, Strip(all_lines[i]), _RE_AMOUNT_END(Strip(all_lines[i]))))

\* _parse_section_based: the transactions that obtained an amount
_parse_section_based(all_lines) ==
    SelectSeq(SectionLoop(all_lines, 1, FALSE, <<>>, <<>>), LAMBDA t : t.Amount # "")

\* _no_tables: the result that asks for a manual mapping (a preview has no reason)
_no_tables(reason) ==
    [status |-> "needs_manual_mapping", headers |-> <<>>, rows |-> <<>>, reason |-> reason]

NeedsManualMapping == _no_tables("no_transactions_found")

\* a line parser that reports a preview whatever it found
ExtractionResultAlwaysPreview(txns) ==
    [status |-> "preview", headers |-> <<"Date", "Description", "Amount">>, rows |-> txns,
     reason |-> ""]

\* the result of the line parser for the transactions it found
ExtractionResult(txns) ==
    IF txns = <<>> THEN NeedsManualMapping
    ELSE [status |-> "preview", headers |-> <<"Date", "Description", "Amount">>, rows |-> txns,
          reason |-> ""]

\* a line parser that looks for the tabular sentinel first
ParseTextLinesTabularFirst(all_lines) ==
    ExtractionResult(
        IF \E i \in 1..Len(all_lines) : _RE_TABULAR_HEADER(Strip(all_lines[i]))
        THEN _parse_tabular(all_lines, 1, FALSE)
        ELSE IF \E i \in 1..Len(all_lines) : _RE_YE_COLUMN_HEADER(Strip(all_lines[i]))
        THEN _parse_year_end_summary(all_lines, 1)
        ELSE _parse_section_based(all_lines))

\* _parse_text_lines: detect the layout by its sentinel line and parse
_parse_text_lines(all_lines) ==
    ExtractionResult(
        IF \E i \in 1..Len(all_lines) : _RE_YE_COLUMN_HEADER(Strip(all_lines[i]))
        THEN _parse_year_end_summary(all_lines, 1)
        ELSE IF \E i \in 1..Len(all_lines) : _RE_TABULAR_HEADER(Strip(all_lines[i]))
        THEN _parse_tabular(all_lines, 1, FALSE)
        ELSE _parse_section_based(all_lines))

\* the lines of a file read as text: a CSV file has its header line and one
\* comma-joined line per row, none of which is a sentinel or a date line
RECURSIVE JoinCells(_, _, _)
JoinCells(row, headers, i) ==
    IF i > Len(headers) THEN ""
    ELSE (IF i > 1 THEN "," ELSE "") \o Get(row, headers[i]) \o JoinCells(row, headers, i + 1)

TextLines(content) ==
    IF content.kind = "text" THEN content.lines
    ELSE <<JoinCells([h \in Range(content.headers) |-> h], content.headers, 1)>>
         \o [i \in 1..Len(content.rows) |-> JoinCells(content.rows[i], content.headers, 1)]

\* extract_txt: decode and run the line parser
extract_txt(content) == _parse_text_lines(TextLines(content))

\* extract_pdf: the uploads of the model are CSV and text files, which pdfplumber
\* cannot open; the exception is caught and reported
extract_pdf(content) == _no_tables("Could not open or parse PDF")

(***************************************************************************)
(* categorizer.py                                                          *)
(***************************************************************************)
\* None in a nullable integer column
NoId == 0

\* the seeded rules that bear on the descriptions of the uploads above,
\* numbered by their position in _DEFAULT_RULES; category ids by the position
\* of the category in _DEFAULT_CATEGORIES
_DEFAULT_RULES ==
    { [id |-> 8, pattern |-> "payroll", match_type |-> "contains",
       category_id |-> 1, priority |-> 90, is_active |-> TRUE],
      [id |-> 22, pattern |-> "starbucks", match_type |-> "contains",
       category_id |-> 7, priority |-> 70, is_active |-> TRUE] }

\* the seeded categories the rules above refer to, by id
_DEFAULT_CATEGORIES == {1, 7}

\* the test of one rule against a normalised description.  The regex patterns
\* modelled are literals (letters, digits, spaces), for which re.search with
\* IGNORECASE is a case-insensitive substring test; a pattern with "(" does not
\* compile, and re.error makes the rule count as not matching.
RuleMatches(rule, description_norm) ==
    CASE rule.match_type = "contains" -> Contains(description_norm, Lower(rule.pattern))
      [] rule.match_type = "exact"    -> Lower(rule.pattern) = Strip(description_norm)
      [] rule.match_type = "regex"    ->
            /\ ~Contains(rule.pattern, "(")
            /\ Contains(Lower(description_norm), Lower(rule.pattern))
      [] OTHER                        -> FALSE

\* categorize: (category_id, rule_id) of the first active rule that matches
RECURSIVE categorize(_, _)
categorize(description_norm, rule_list) ==
    IF rule_list = <<>> THEN [category_id |-> NoId, rule_id |-> NoId]
    ELSE LET rule == Head(rule_list)
         IN  IF rule.is_active /\ RuleMatches(rule, description_norm)
             THEN [category_id |-> rule.category_id, rule_id |-> rule.id]
             ELSE categorize(description_norm, Tail(rule_list))

\* re.compile of a pattern: None when it compiles, "re.error" for an unbalanced
\* parenthesis, "OverflowError" for a repetition count beyond the engine's limit
RegexError(pattern) ==
    IF Contains(pattern, "{4294967296}") THEN "OverflowError"
    ELSE IF Contains(pattern, "(") THEN "re.error"
    ELSE None

\* the exception that leaves categorize (None when it returns): the try of the
\* loop catches re.error only, so another exception of re.search on a rule
\* reached before any match leaves the function
RECURSIVE CategorizeRaises(_, _)
CategorizeRaises(description_norm, rule_list) ==
    IF rule_list = <<>> THEN None
    ELSE LET rule == Head(rule_list)
         IN  IF rule.is_active /\ rule.match_type = "regex"
                /\ RegexError(rule.pattern) \notin {None, "re.error"}
             THEN RegexError(rule.pattern)
             ELSE IF rule.is_active /\ RuleMatches(rule, description_norm) THEN None
             ELSE CategorizeRaises(description_norm, Tail(rule_list))

\* a rule query ordered by id only
LoadActiveRulesById(rs) ==
    LET act == {r \in rs : r.is_active}
        ids == {r.id : r \in act}
        Nth(k) == CHOOSE r \in act : Cardinality({i \in ids : i <= r.id}) = k
    IN  [k \in 1..Cardinality(act) |-> Nth(k)]

\* _load_active_rules: the active rules by priority DESC, id ASC
RECURSIVE _load_active_rules(_)
_load_active_rules(rs) ==
    LET act   == {r \in rs : r.is_active}
        first == CHOOSE r \in act : \A q \in act :
                    r.priority > q.priority \/ (r.priority = q.priority /\ r.id <= q.id)
    IN  IF act = {} THEN <<>> ELSE <<first>> \o _load_active_rules(act \ {first})

\* a pass over the rows of every batch, with or without active rules
AutoCategorizeAll(txs, rs, import_id) ==
    {[tx EXCEPT !.category_id = categorize(tx.description_norm, _load_active_rules(rs)).category_id,
                !.category_source =
                    IF categorize(tx.description_norm, _load_active_rules(rs)).category_id # NoId
                    THEN "rule" ELSE "uncategorized",
                !.category_rule_id = categorize(tx.description_norm, _load_active_rules(rs)).rule_id]
        : tx \in txs}

\* auto_categorize_import: the transactions table after categorising one batch
auto_categorize_import(txs, rs, import_id) ==
    LET rule_list == _load_active_rules(rs)
        Cat(tx)   == categorize(tx.description_norm, rule_list)
        Upd(tx)   ==
            IF tx.import_id = import_id
               /\ (tx.category_id # Cat(tx).category_id \/ tx.category_rule_id # Cat(tx).rule_id)
            THEN [tx EXCEPT !.category_id = Cat(tx).category_id,
                            !.category_source = IF Cat(tx).category_id # NoId THEN "rule" ELSE None,
                            !.category_rule_id = Cat(tx).rule_id]
            ELSE tx
    IN  IF rule_list = <<>> THEN txs ELSE {Upd(tx) : tx \in txs}

\* a rescan that leaves manual assignments alone
ApplyRulesKeepManual(txs, rs) ==
    {IF tx.category_source = "manual" THEN tx
     ELSE [tx EXCEPT !.category_id = categorize(tx.description_norm, _load_active_rules(rs)).category_id,
                     !.category_source = "rule",
                     !.category_rule_id = categorize(tx.description_norm, _load_active_rules(rs)).rule_id]
        : tx \in txs}

\* apply_rules_to_all: the transactions table after the full rescan
apply_rules_to_all(txs, rs) ==
    LET rule_list == _load_active_rules(rs)
        Cat(tx)   == categorize(tx.description_norm, rule_list)
        Upd(tx)   ==
            IF tx.category_id # Cat(tx).category_id \/ tx.category_rule_id # Cat(tx).rule_id
            THEN [tx EXCEPT !.category_id = Cat(tx).category_id,
                            !.category_source = IF Cat(tx).category_id # NoId THEN "rule" ELSE None,
                            !.category_rule_id = Cat(tx).rule_id]
            ELSE tx
    IN  {Upd(tx) : tx \in txs}

(***************************************************************************)
(* csv_importer.py: one row                                                *)
(***************************************************************************)
Skip == [kind |-> "skip", posted_date |-> "", raw_desc |-> "", amount |-> ValueError, currency |-> ""]

Parsed(posted_date, raw_desc, amount, currency) ==
    [kind |-> "parsed", posted_date |-> posted_date, raw_desc |-> raw_desc,
     amount |-> amount, currency |-> currency]

\* the currency of a row: the cell of the currency column when there is one
RowCurrency(row, col_currency) ==
    IF col_currency # "" /\ col_currency # None /\ Strip(Get(row, col_currency)) # ""
    THEN Strip(Get(row, col_currency)) ELSE _DEFAULT_CURRENCY

\* the end of every row loop body before _insert_transaction: a row with a
\* missing cell or an amount that raised ValueError is skipped, else its date is
\* parsed
RowResult(raw_date, raw_desc, missing, amount, currency) ==
    IF missing \/ amount.k = "err" THEN Skip
    ELSE Parsed(parse_date(raw_date), raw_desc, amount, currency)

\* the row loop body of import_csv up to the call of _insert_transaction
PresetRow(row, cols) ==
    RowResult(Strip(Get(row, cols.posted_date)), Strip(Get(row, cols.description_raw)),
              \/ Strip(Get(row, cols.posted_date)) = ""
              \/ Strip(Get(row, cols.description_raw)) = ""
              \/ Strip(Get(row, cols.amount)) = "",
              parse_amount(Strip(Get(row, cols.amount))),
              RowCurrency(row, cols.currency))

\* the amount of a row of import_csv_with_mapping and import_pdf_with_mapping
MappedAmount(row, mapping) ==
    IF mapping.amount_type = "single" THEN parse_amount(Strip(Get(row, mapping.amount)))
    ELSE parse_split_amount(IF mapping.debit # "" THEN Get(row, mapping.debit) ELSE "",
                            IF mapping.credit # "" THEN Get(row, mapping.credit) ELSE "")

\* the row loop body of import_csv_with_mapping and import_pdf_with_mapping
MappedRow(row, mapping) ==
    RowResult(Strip(Get(row, mapping.posted_date)), Strip(Get(row, mapping.description_raw)),
              \/ Strip(Get(row, mapping.posted_date)) = ""
              \/ Strip(Get(row, mapping.description_raw)) = ""
              \/ mapping.amount_type = "single" /\ Strip(Get(row, mapping.amount)) = "",
              MappedAmount(row, mapping),
              RowCurrency(row, mapping.currency))

_PAYPAL_SKIP_TYPES ==
    {"general withdrawal - bank account", "withdrawal to bank account", "transfer to bank account",
     "transfer from paypal to bank", "general credit card withdrawal"}

\* the description import_paypal_csv builds from Name, Subject and Type
PayPalDescription(name, subject, tx_type) ==
    IF subject # "" /\ Lower(subject) # Lower(name)
    THEN (IF name # "" THEN name \o " - " \o subject ELSE subject)
    ELSE IF name # "" THEN name
    ELSE IF tx_type # "" THEN tx_type ELSE "PayPal Payment"

\* an import_paypal_csv that filters no row
PayPalFilteredNever(status, impact, tx_type) == FALSE

\* the filters of import_paypal_csv: completed debits that are no withdrawals
PayPalFiltered(status, impact, tx_type) ==
    \/ status # "Completed"
    \/ impact # "Debit"
    \/ tx_type \in _PAYPAL_SKIP_TYPES \/ Contains(tx_type, "withdrawal")

\* (row.get("Currency") or _DEFAULT_CURRENCY).strip() or _DEFAULT_CURRENCY
PayPalCurrency(cell) == IF Strip(cell) = "" THEN _DEFAULT_CURRENCY ELSE Strip(cell)

\* the row loop body of import_paypal_csv
PayPalImportRow(row) ==
    RowResult(Strip(Get(row, "Date")),
              PayPalDescription(Strip(Get(row, "Name")), Strip(Get(row, "Subject")),
                                Lower(Strip(Get(row, "Type")))),
              \/ PayPalFiltered(Strip(Get(row, "Status")), Strip(Get(row, "Balance Impact")),
                                Lower(Strip(Get(row, "Type"))))
              \/ Strip(Get(row, "Date")) = "" \/ Strip(Get(row, "Net")) = "",
              parse_amount(Strip(Get(row, "Net"))),
              PayPalCurrency(Get(row, "Currency")))

\* _insert_transaction without its in-memory check
InBatchSeenNever(fingerprint, batch_seen) == FALSE

\* check 1 of _insert_transaction: the fingerprint was seen in this batch
InBatchSeen(fingerprint, batch_seen) == fingerprint \in batch_seen

\* _insert_transaction without its database check
InDatabaseNever(fingerprint, txs) == FALSE

\* check 2 of _insert_transaction: a committed transaction has the fingerprint
InDatabase(fingerprint, txs) == \E t \in txs : t.fingerprint_hash = fingerprint

\* the exceptions the row loop catches
_ROW_ERRORS == {"ValueError", "KeyError", "TypeError"}

\* _insert_transaction for the fingerprint and the cents of the row: the
\* exception raised (None when none), whether a transaction was added, the
\* batch_seen set afterwards, the pending row and the fingerprint computed
InsertChecked(txs, tx, fingerprint, cents, batch_seen) ==
    IF InBatchSeen(fingerprint, batch_seen)
    THEN [exc |-> None, added |-> FALSE, batch_seen |-> batch_seen, tx |-> <<>>,
          fingerprint |-> fingerprint]
    ELSE IF InDatabase(fingerprint, txs)
    THEN [exc |-> None, added |-> FALSE, batch_seen |-> batch_seen, tx |-> <<>>,
          fingerprint |-> fingerprint]
    ELSE IF cents.exc # None
    THEN [exc |-> cents.exc, added |-> FALSE, batch_seen |-> batch_seen \cup {fingerprint},
          tx |-> <<>>, fingerprint |-> fingerprint]
    ELSE [exc |-> None, added |-> TRUE, batch_seen |-> batch_seen \cup {fingerprint},
          tx |-> <<[tx EXCEPT !.fingerprint_hash = fingerprint, !.amount_cents = cents.v]>>,
          fingerprint |-> fingerprint]

\* an insertion whose fingerprint also covers the batch and the currency
InsertWithBatchFingerprint(txs, import_id, posted_date, raw_desc, amount, currency, batch_seen) ==
    InsertChecked(txs,
                  [import_id |-> import_id, posted_date |-> posted_date,
                   description_raw |-> raw_desc,
                   description_norm |-> normalize_description(raw_desc), amount_cents |-> 0,
                   currency |-> currency, fingerprint_hash |-> "",
                   category_id |-> NoId, category_source |-> None, category_rule_id |-> NoId],
                  compute_fingerprint(posted_date, raw_desc, amount) \o "|" \o currency
                      \o "|" \o IntToStr(import_id),
                  to_cents(amount), batch_seen)

\* _insert_transaction
_insert_transaction(txs, import_id, posted_date, raw_desc, amount, currency, batch_seen) ==
    InsertChecked(txs,
                  [import_id |-> import_id, posted_date |-> posted_date,
                   description_raw |-> raw_desc,
                   description_norm |-> normalize_description(raw_desc), amount_cents |-> 0,
                   currency |-> currency, fingerprint_hash |-> "",
                   category_id |-> NoId, category_source |-> None, category_rule_id |-> NoId],
                  compute_fingerprint(posted_date, raw_desc, amount), to_cents(amount), batch_seen)

(***************************************************************************)
(* The import calls.  imports and transactions are the committed tables;   *)
(* each call runs in its own session, whose pending rows are invisible to  *)
(* every query until the commit.  writer is the session that holds the     *)
(* SQLite write lock (NoId when none).  categories holds the ids of the    *)
(* categories table, ncalls counts the requests served, and probe is the   *)
(* function, arguments and result of the last call that is not an import,  *)
(* with its number n among the requests (NoProbe when there is none).      *)
(***************************************************************************)
VARIABLES imports, transactions, rules, categories, writer, call, ncalls, probe

vars == <<imports, transactions, rules, categories, writer, call, ncalls, probe>>

\* the sessions that may run import calls
Procs == {1, 2}

\* the number of import calls of one behaviour
MaxCalls == 2

\* the number of import calls of one behaviour of the concurrent specification
MaxConcCalls == 2

\* the calls a client may make: the endpoint, the upload and its arguments
Requests ==
    {[variant |-> "preset", filename |-> "upload.csv", content |-> f, source_type |-> st,
      mapping |-> NoMapping] : f \in Files, st \in {"generic", "chase"}}
    \cup {[variant |-> "mapping", filename |-> "upload.csv", content |-> f, source_type |-> "custom",
           mapping |-> m] : f \in Files, m \in Mappings}
    \cup {[variant |-> "paypal", filename |-> "upload.csv", content |-> f, source_type |-> "paypal",
           mapping |-> NoMapping] : f \in Files}
    \cup {[variant |-> "pdf", filename |-> fn, content |-> f, source_type |-> "pdf",
           mapping |-> m] : f \in Files, fn \in {"statement.txt", "statement.pdf"},
                            m \in {SingleMapping, NoAmountMapping}}

\* the calls of the concurrent specification: the same file, or two files with
\* a common row
ConcRequests ==
    {r \in Requests : /\ r.content \in {ScenarioCsv, OverlapCsv}
                      /\ \/ r.variant = "preset" /\ r.source_type = "generic"
                         \/ r.variant = "mapping" /\ r.mapping = SingleMapping}

NoResult == [id |-> NoId, inserted |-> 0, skipped |-> 0]

NoCols == [posted_date |-> None, description_raw |-> None, amount |-> None, currency |-> None]

\* no function applied yet
NoProbe == [fn |-> "", args |-> <<>>, out |-> <<>>, n |-> 0]

\* a session that runs no call
Idle ==
    [pc |-> "idle", variant |-> "", filename |-> "", content |-> Text(<<>>), source_type |-> "",
     mapping |-> NoMapping, headers |-> <<>>, rows |-> <<>>, cols |-> NoCols,
     import_id |-> NoId, pending |-> <<>>, batch_seen |-> {}, idx |-> 0,
     inserted |-> 0, skipped |-> 0, log |-> <<>>, result |-> NoResult, exc |-> None,
     at |-> "", trace |-> <<>>, post |-> <<>>, committed |-> FALSE,
     pre_imports |-> {}, pre_transactions |-> {}]

Init ==
    /\ imports = {}
    /\ transactions = {}
    /\ rules = _DEFAULT_RULES
    /\ writer = NoId
    /\ call = [p \in Procs |-> Idle]
    /\ ncalls = 0
    /\ categories = _DEFAULT_CATEGORIES
    /\ probe = NoProbe

Finished(c) == c.pc \in {"idle", "returned", "raised"}

\* `raise` out of the call, at step at
Raise(c, exc, at) == [c EXCEPT !.pc = "raised", !.exc = exc, !.at = at]

\* a client calls an import endpoint.  pre_imports and pre_transactions record
\* the tables at the call, trace the steps the call takes.
StartImport(p, reqs, max) ==
    /\ Finished(call[p])
    /\ ncalls < max
    /\ \E r \in reqs :
          call' = [call EXCEPT ![p] =
                     [Idle EXCEPT !.pc = IF r.variant = "pdf" THEN "extract" ELSE "dedup",
                                  !.variant = r.variant, !.filename = r.filename,
                                  !.content = r.content, !.source_type = r.source_type,
                                  !.mapping = r.mapping,
                                  !.pre_imports = imports, !.pre_transactions = transactions]]
    /\ ncalls' = ncalls + 1
    /\ UNCHANGED <<imports, transactions, rules, categories, probe, writer>>

\* import_pdf_with_mapping: extraction, which precedes the file-level dedup
Extracted(c, extraction) ==
    IF extraction.status # "preview" THEN Raise(c, "ValueError", "extract")
    ELSE [c EXCEPT !.pc = "dedup", !.headers = extraction.headers, !.rows = extraction.rows]

Extract(p) ==
    /\ call[p].pc = "extract"
    /\ call' = [call EXCEPT ![p] =
                  Extracted([call[p] EXCEPT !.trace = Append(@, "extract")],
                            IF EndsWith(Lower(call[p].filename), ".txt")
                            THEN extract_txt(call[p].content) ELSE extract_pdf(call[p].content))]
    /\ UNCHANGED <<imports, transactions, rules, categories, probe, writer, ncalls>>

\* db.query(Import).filter(Import.file_hash == file_hash).first()
existing(imps, file_hash) == {i \in imps : i.file_hash = file_hash}

\* the file-level dedup: an import of the same bytes is returned as it is
FileDedupCheck(p) ==
    LET c  == call[p]
        ex == existing(imports, compute_file_hash(c.content))
        e  == CHOOSE i \in ex : TRUE
        tx_count == Cardinality({t \in transactions : t.import_id = e.id})
        d  == [c EXCEPT !.trace = Append(@, "dedup")]
    IN  /\ c.pc = "dedup"
        /\ call' = [call EXCEPT ![p] =
                      IF ex # {}
                      THEN [d EXCEPT !.pc = "returned",
                                     !.result = [id |-> e.id, inserted |-> 0, skipped |-> tx_count]]
                      ELSE [d EXCEPT !.pc = "validate"]]
        /\ UNCHANGED <<imports, transactions, rules, categories, probe, writer, ncalls>>

\* the mapping checks of import_csv_with_mapping and import_pdf_with_mapping
MappingError(mapping) ==
    \/ mapping.posted_date = "" \/ mapping.description_raw = ""
    \/ mapping.amount_type = "single" /\ mapping.amount = ""
    \/ mapping.amount_type = "split" /\ mapping.debit = "" /\ mapping.credit = ""

\* _check: a mapped column that the headers do not have
HeaderError(mapping, headers) ==
    \E col \in {mapping.posted_date, mapping.description_raw, mapping.amount, mapping.debit,
                mapping.credit, mapping.currency} :
        col # "" /\ col \notin Range(headers)

\* the columns import_csv resolves for a source type
ResolvedColumns(headers, source_type) ==
    LET mapper == IF source_type \in DOMAIN COLUMN_MAPPERS
                  THEN COLUMN_MAPPERS[source_type] ELSE COLUMN_MAPPERS["generic"]
    IN  [posted_date |-> resolve_column(headers, mapper.posted_date),
         description_raw |-> resolve_column(headers, mapper.description_raw),
         amount |-> resolve_column(headers, mapper.amount),
         currency |-> resolve_column(headers, mapper.currency)]

\* the header check of import_csv
PresetError(cols) ==
    cols.posted_date = None \/ cols.description_raw = None \/ cols.amount = None

\* whether the validation of call c raises, given the headers it reads
ValidationError(c, headers) ==
    CASE c.variant = "preset" -> PresetError(ResolvedColumns(headers, c.source_type))
      [] c.variant = "paypal" -> FALSE
      [] OTHER                -> MappingError(c.mapping) \/ HeaderError(c.mapping, headers)

\* a validation that lets every mapping and every header row pass
ValidatedAnyway(c, headers, rows) ==
    [c EXCEPT !.pc = "flush", !.headers = headers, !.rows = rows,
              !.cols = IF c.variant = "preset"
                       THEN ResolvedColumns(headers, c.source_type) ELSE NoCols]

\* the call after its validation, given the headers and rows it reads
Validated(c, headers, rows) ==
    IF ValidationError(c, headers) THEN Raise(c, "ValueError", "validate")
    ELSE [c EXCEPT !.pc = "flush", !.headers = headers, !.rows = rows,
                   !.cols = IF c.variant = "preset"
                            THEN ResolvedColumns(headers, c.source_type) ELSE NoCols]

\* the batch-level validation; the CSV variants read the file here, the PDF
\* variant has the extracted table, the PayPal variant validates nothing
Validate(p) ==
    /\ call[p].pc = "validate"
    /\ call' = [call EXCEPT ![p] =
                  Validated(IF call[p].variant = "paypal" THEN call[p]
                            ELSE [call[p] EXCEPT !.trace = Append(@, "validate")],
                            IF call[p].variant = "pdf" THEN call[p].headers
                            ELSE DictReader(call[p].content).headers,
                            IF call[p].variant = "pdf" THEN call[p].rows
                            ELSE DictReader(call[p].content).rows)]
    /\ UNCHANGED <<imports, transactions, rules, categories, probe, writer, ncalls>>

MaxId(S) == IF S = {} THEN 0 ELSE CHOOSE n \in {x.id : x \in S} : \A x \in S : x.id <= n

\* the Import row of a call
ImportRecord(c) ==
    [id |-> c.import_id, filename |-> c.filename, file_hash |-> compute_file_hash(c.content),
     source_type |-> c.source_type, column_mapping |-> c.mapping]

\* an imports table without the unique index on file_hash
NoUniqueFileHash(imps, rec) == TRUE

\* unique=True of Import.file_hash
UniqueFileHash(imps, rec) == \A i \in imps : i.file_hash # rec.file_hash

\* unique=True of Transaction.fingerprint_hash
UniqueFingerprint(txs, pending) ==
    /\ \A k \in 1..Len(pending) : \A t \in txs : t.fingerprint_hash # pending[k].fingerprint_hash
    /\ \A k, l \in 1..Len(pending) :
          pending[k].fingerprint_hash = pending[l].fingerprint_hash => k = l

\* db.commit(): the tables with the pending rows of the session made visible
commit(db, c) ==
    [imports |-> db.imports \cup {ImportRecord(c)},
     transactions |-> db.transactions \cup
        {c.pending[k] @@ [id |-> MaxId(db.transactions) + k] : k \in 1..Len(c.pending)}]

\* an error handler that keeps the pending rows
RollbackKeepsPending(db, c) == commit(db, c)

\* db.rollback(): the tables without the pending rows of the session
rollback(db, c) == db

Tables == [imports |-> imports, transactions |-> transactions]

\* db.add(import_record); db.flush(): the INSERT takes the write lock and is
\* checked against the unique index
Flush(p) ==
    /\ call[p].pc = "flush"
    /\ writer = NoId
    /\ IF UniqueFileHash(imports, ImportRecord(call[p]))
       THEN /\ call' = [call EXCEPT ![p] = [call[p] EXCEPT !.pc = "rows",
                                                         !.import_id = MaxId(imports) + 1,
                                                         !.trace = Append(@, "rows")]]
            /\ writer' = p
            /\ UNCHANGED <<imports, transactions>>
       ELSE /\ call' = [call EXCEPT ![p] = Raise(call[p], "IntegrityError", "flush")]
            /\ imports' = rollback(Tables, call[p]).imports
            /\ transactions' = rollback(Tables, call[p]).transactions
            /\ UNCHANGED writer
    /\ UNCHANGED <<rules, categories, probe, ncalls>>

\* db.flush() while another session holds the write lock: "database is locked"
FlushLocked(p) ==
    /\ call[p].pc = "flush"
    /\ writer \notin {NoId, p}
    /\ call' = [call EXCEPT ![p] = Raise(call[p], "OperationalError", "flush")]
    /\ UNCHANGED <<imports, transactions, rules, categories, probe, writer, ncalls>>

\* the row loop body of the variant of call c
RowOutcome(c, row) ==
    CASE c.variant = "preset" -> PresetRow(row, c.cols)
      [] c.variant = "paypal" -> PayPalImportRow(row)
      [] OTHER                -> MappedRow(row, c.mapping)

\* the entry of the log of a call for one row: the outcome o of its cells, the
\* fingerprint computed for it ("" when none was) and what the loop did
LogEntry(o, fingerprint, did) ==
    [did |-> did, kind |-> o.kind, posted_date |-> o.posted_date, raw_desc |-> o.raw_desc,
     amount |-> o.amount, fingerprint |-> fingerprint]

\* an iteration that leaves the row out of both counters
RowSkippedUncounted(c, o, fingerprint, batch_seen) ==
    [c EXCEPT !.idx = @ + 1,
              !.log = Append(@, LogEntry(o, fingerprint, "skipped")),
              !.batch_seen = batch_seen]

\* the end of an iteration that counts the row as skipped
RowSkipped(c, o, fingerprint, batch_seen) ==
    [c EXCEPT !.idx = @ + 1, !.skipped = @ + 1,
              !.log = Append(@, LogEntry(o, fingerprint, "skipped")),
              !.batch_seen = batch_seen]

\* the end of an iteration, given the return r of _insert_transaction: an
\* exception the loop does not catch leaves through db.rollback(); raise
RowInserted(p, o, r) ==
    IF r.exc # None /\ r.exc \notin _ROW_ERRORS
    THEN /\ call' = [call EXCEPT ![p] =
                       Raise([call[p] EXCEPT !.idx = @ + 1, !.pending = <<>>], r.exc, "rows")]
         /\ imports' = rollback(Tables, call[p]).imports
         /\ transactions' = rollback(Tables, call[p]).transactions
         /\ writer' = NoId
    ELSE /\ call' = [call EXCEPT ![p] =
                       IF r.exc # None \/ ~r.added
                       THEN RowSkipped(call[p], o, r.fingerprint, r.batch_seen)
                       ELSE [call[p] EXCEPT !.idx = @ + 1, !.inserted = @ + 1,
                                            !.log = Append(@, LogEntry(o, r.fingerprint, "inserted")),
                                            !.batch_seen = r.batch_seen,
                                            !.pending = @ \o r.tx]]
         /\ UNCHANGED <<imports, transactions, writer>>

\* the end of an iteration, given the outcome o of the cells of the row
RowParsed(p, o) ==
    IF o.kind = "skip"
    THEN /\ call' = [call EXCEPT ![p] = RowSkipped(call[p], o, "", call[p].batch_seen)]
         /\ UNCHANGED <<imports, transactions, writer>>
    ELSE RowInserted(p, o, _insert_transaction(transactions, call[p].import_id, o.posted_date,
                                               o.raw_desc, o.amount, o.currency,
                                               call[p].batch_seen))

\* one iteration of `for row in reader`
ProcessRow(p) ==
    /\ call[p].pc = "rows"
    /\ call[p].idx < Len(call[p].rows)
    /\ RowParsed(p, RowOutcome(call[p], call[p].rows[call[p].idx + 1]))
    /\ UNCHANGED <<rules, categories, probe, ncalls>>

\* the end of db.commit(): exc is the error it raises (None when none)
Committed(p, exc) ==
    /\ imports' = (IF exc = None THEN commit(Tables, call[p]) ELSE rollback(Tables, call[p])).imports
    /\ transactions' =
          (IF exc = None THEN commit(Tables, call[p]) ELSE rollback(Tables, call[p])).transactions
    /\ call' = [call EXCEPT ![p] =
                  IF exc = None
                  THEN [call[p] EXCEPT !.pc = "categorize", !.committed = TRUE,
                                       !.pending = <<>>, !.trace = Append(@, "commit")]
                  ELSE Raise([call[p] EXCEPT !.pending = <<>>], exc, "commit")]

\* db.commit() after the last row; ok is whether the storage accepts the write
Commit(p) ==
    /\ call[p].pc = "rows"
    /\ call[p].idx = Len(call[p].rows)
    /\ \E ok \in BOOLEAN :
          Committed(p, IF ~UniqueFingerprint(transactions, call[p].pending) THEN "IntegrityError"
                       ELSE IF ~ok THEN "OperationalError" ELSE None)
    /\ writer' = NoId
    /\ UNCHANGED <<rules, categories, probe, ncalls>>

\* a post-processing step whose exception leaves the call
PostStepRaises(c, exc, next) ==
    IF exc # None THEN Raise(c, exc, "post") ELSE [c EXCEPT !.pc = next, !.post = Append(@, exc)]

\* try: <post-processing step> except Exception: pass
PostStep(c, exc, next) == [c EXCEPT !.pc = next, !.post = Append(@, exc)]

\* the categorization pass that ends with the table txs
Categorized(p, txs) ==
    /\ writer = NoId \/ txs = transactions
    /\ transactions' = txs
    /\ call' = [call EXCEPT ![p] =
                  PostStep([call[p] EXCEPT !.trace = Append(@, "post")], None, "canonicalize")]

\* the categorization pass; it fails when its UPDATE cannot be written
Categorize(p) ==
    /\ call[p].pc = "categorize"
    /\ \/ Categorized(p, auto_categorize_import(transactions, rules, call[p].import_id))
       \/ /\ UNCHANGED transactions
          /\ call' = [call EXCEPT ![p] =
                        PostStep([call[p] EXCEPT !.trace = Append(@, "post")],
                                 "OperationalError", "canonicalize")]
    /\ UNCHANGED <<imports, rules, categories, probe, writer, ncalls>>

\* the canonicalization pass and the return of the call.  The canonical
\* merchant is not part of the state here; the pass succeeds or fails.
Canonicalize(p) ==
    LET c == call[p]
    IN  /\ c.pc = "canonicalize"
        /\ \E exc \in {None, "Exception"} :
              call' = [call EXCEPT ![p] =
                         [PostStep(c, exc, "returned") EXCEPT
                             !.result = [id |-> c.import_id, inserted |-> c.inserted,
                                         skipped |-> c.skipped]]]
        /\ UNCHANGED <<imports, transactions, rules, categories, probe, writer, ncalls>>

\* calls one after the other, in one session
Next ==
    \/ StartImport(1, Requests, MaxCalls)
    \/ Extract(1)
    \/ FileDedupCheck(1)
    \/ Validate(1)
    \/ Flush(1)
    \/ ProcessRow(1)
    \/ Commit(1)
    \/ Categorize(1)
    \/ Canonicalize(1)

Spec == Init /\ [][Next]_vars

\* two sessions whose calls interleave
NextConc ==
    \E p \in Procs :
        \/ StartImport(p, ConcRequests, MaxConcCalls)
        \/ FileDedupCheck(p)
        \/ Validate(p)
        \/ Flush(p)
        \/ FlushLocked(p)
        \/ ProcessRow(p)
        \/ Commit(p)
        \/ Categorize(p)
        \/ Canonicalize(p)

SpecConc == Init /\ [][NextConc]_vars

(***************************************************************************)
(* routers: the requests that edit rules, categories, assignments and      *)
(* batches, each one handler run to its commit, between import calls of    *)
(* one client.  An id that matches no row gives 404 and changes nothing.   *)
(***************************************************************************)
MaxAdminCalls == 3

\* the uploads of the client
AdminRequests ==
    {r \in Requests : /\ r.content \in {ScenarioCsv, OverlapCsv}
                      /\ r.variant = "preset" /\ r.source_type = "generic"}

\* the bodies of POST /rules and PUT /rules/{id}
RulePayloads ==
    { [pattern |-> "rent", match_type |-> "contains", category_id |-> 1,
       priority |-> 50, is_active |-> TRUE],
      [pattern |-> "starbucks", match_type |-> "contains", category_id |-> 1,
       priority |-> 70, is_active |-> TRUE],
      [pattern |-> "starbucks", match_type |-> "contains", category_id |-> 7,
       priority |-> 70, is_active |-> FALSE] }

\* a request other than an import is served: its record, the request count
Served(fn, args, out) ==
    /\ probe' = [fn |-> fn, args |-> args, out |-> out, n |-> ncalls + 1]
    /\ ncalls' = ncalls + 1
    /\ UNCHANGED <<writer, call>>

\* POST /rules/apply
apply_rules ==
    /\ Finished(call[1]) /\ ncalls < MaxAdminCalls
    /\ transactions' = apply_rules_to_all(transactions, rules)
    /\ Served("apply_rules_to_all", <<transactions, rules>>, <<>>)
    /\ UNCHANGED <<imports, rules, categories>>

\* PATCH /transactions/{tx_id}/category; the body's category_id is not looked up
patch_category ==
    /\ Finished(call[1]) /\ ncalls < MaxAdminCalls
    /\ \E tx \in transactions, cid \in {NoId} \cup _DEFAULT_CATEGORIES :
          /\ transactions' = (transactions \ {tx}) \cup
                {[tx EXCEPT !.category_id = cid,
                            !.category_source = IF cid # NoId THEN "manual" ELSE "uncategorized",
                            !.category_rule_id = NoId]}
          /\ Served("patch_category", <<tx.id, cid>>, <<>>)
    /\ UNCHANGED <<imports, rules, categories>>

\* POST /rules; 422 when the category does not exist
create_rule ==
    /\ Finished(call[1]) /\ ncalls < MaxAdminCalls
    /\ \E payload \in RulePayloads :
          /\ rules' = IF payload.category_id \in categories
                       THEN rules \cup {[id |-> MaxId(rules) + 1] @@ payload}
                       ELSE rules
          /\ Served("create_rule", <<payload>>, <<>>)
    /\ UNCHANGED <<imports, transactions, categories>>

\* PUT /rules/{rule_id}; 422 when the category does not exist
update_rule ==
    /\ Finished(call[1]) /\ ncalls < MaxAdminCalls
    /\ \E rule \in rules, payload \in RulePayloads :
          /\ rules' = IF payload.category_id \in categories
                       THEN (rules \ {rule}) \cup {[id |-> rule.id] @@ payload}
                       ELSE rules
          /\ Served("update_rule", <<rule.id, payload>>, <<>>)
    /\ UNCHANGED <<imports, transactions, categories>>

\* DELETE /rules/{rule_id}
delete_rule ==
    /\ Finished(call[1]) /\ ncalls < MaxAdminCalls
    /\ \E rule \in rules :
          /\ transactions' =
                {IF tx.category_rule_id = rule.id
                 THEN [tx EXCEPT !.category_rule_id = NoId, !.category_source = "uncategorized"]
                 ELSE tx : tx \in transactions}
          /\ rules' = rules \ {rule}
          /\ Served("delete_rule", <<rule.id>>, <<>>)
    /\ UNCHANGED <<imports, categories>>

\* DELETE /categories/{cat_id}; the rules of the category go with it (cascade)
delete_category ==
    /\ Finished(call[1]) /\ ncalls < MaxAdminCalls
    /\ \E cat_id \in categories :
          /\ transactions' =
                {IF tx.category_id = cat_id
                 THEN [tx EXCEPT !.category_id = NoId, !.category_source = None,
                                 !.category_rule_id = NoId]
                 ELSE tx : tx \in transactions}
          /\ rules' = {r \in rules : r.category_id # cat_id}
          /\ categories' = categories \ {cat_id}
          /\ Served("delete_category", <<cat_id>>, <<>>)
    /\ UNCHANGED imports

\* a deletion of the batch that leaves its rows behind
DeleteImportKeepsRows ==
    /\ Finished(call[1]) /\ ncalls < MaxAdminCalls
    /\ \E imp \in imports :
          /\ imports' = imports \ {imp}
          /\ Served("delete_import", <<imp>>, {tx \in transactions : tx.import_id = imp.id})
    /\ UNCHANGED <<transactions, rules, categories>>

\* DELETE /imports/{import_id}
delete_import ==
    /\ Finished(call[1]) /\ ncalls < MaxAdminCalls
    /\ \E imp \in imports :
          /\ transactions' = {tx \in transactions : tx.import_id # imp.id}
          /\ imports' = imports \ {imp}
          /\ Served("delete_import", <<imp>>, {tx \in transactions : tx.import_id = imp.id})
    /\ UNCHANGED <<rules, categories>>

\* one client: imports and edits, one request after the other
NextAdmin ==
    \/ StartImport(1, AdminRequests, MaxAdminCalls)
    \/ FileDedupCheck(1)
    \/ Validate(1)
    \/ Flush(1)
    \/ ProcessRow(1)
    \/ Commit(1)
    \/ Categorize(1)
    \/ Canonicalize(1)
    \/ apply_rules
    \/ patch_category
    \/ create_rule
    \/ update_rule
    \/ delete_rule
    \/ delete_category
    \/ delete_import

SpecAdmin == Init /\ [][NextAdmin]_vars

(***************************************************************************)
(* Imports of amounts with fractions of a cent and with signed zeros        *)
(***************************************************************************)
\* the purchase of ScenarioCsv with a fraction of a cent, and a zero amount in
\* both signs
CentsCsv ==
    Csv(<<"Date", "Description", "Amount">>,
        << Row3("01/15/2026", "STARBUCKS #123", "-4.501"),
           Row3("01/19/2026", "REFUND", "0.00"),
           Row3("01/19/2026", "REFUND", "-0.00") >>)

CentsRequests ==
    {[variant |-> "preset", filename |-> "upload.csv", content |-> f, source_type |-> "generic",
      mapping |-> NoMapping] : f \in {ScenarioCsv, CentsCsv}}
    \cup {[variant |-> "mapping", filename |-> "upload.csv", content |-> f,
           source_type |-> "custom", mapping |-> SingleMapping] : f \in {ScenarioCsv, CentsCsv}}

\* the CSV imports of one client, one after the other
NextCents ==
    \/ StartImport(1, CentsRequests, MaxCalls)
    \/ FileDedupCheck(1)
    \/ Validate(1)
    \/ Flush(1)
    \/ ProcessRow(1)
    \/ Commit(1)
    \/ Categorize(1)
    \/ Canonicalize(1)

SpecCents == Init /\ [][NextCents]_vars

(***************************************************************************)
(* normalizer.py: merchant candidate of a description                      *)
(***************************************************************************)
UpperCh(c) ==
    IF \E i \in 1..Len(LowerAlpha) : Ch(LowerAlpha, i) = c
    THEN Ch(UpperAlpha, CHOOSE i \in 1..Len(LowerAlpha) : Ch(LowerAlpha, i) = c)
    ELSE c

IsAlpha(c) == c # "" /\ (LowerCh(c) # c \/ UpperCh(c) # c)

IsUpper(c) == c # "" /\ LowerCh(c) # c

\* \w
IsWord(c) == IsAlpha(c) \/ IsDigit(c) \/ c = "_"

\* the alternatives of _PREFIX_RE in the order the expression tries them, each
\* optional group written out with the longer reading first.  Letters match in
\* either case; "~" is \s+, "_" is \s*, "^" is an optional dash.
PrefixPatterns ==
    << "online payment_^_", "online purchase_^_", "online transfer_^_",
       "online banking transfer_^_",
       "debit card purchase~", "debit card payment~",
       "debit card~purchase~", "debit purchase~",
       "recurring charge~", "recurring payment~", "recurring pmt~",
       "bill payment~",
       "pos purchase_", "pos debit_", "pos pmt_", "pos refund_", "pos _",
       "ach debit_", "ach credit_", "ach pmt_", "ach payment_", "ach transfer_", "ach _",
       "wire transfer~", "wire pmt~",
       "check card~purchase~", "check purchase~",
       "tst_*_", "sq_*_", "pp_*_",
       "paypal_*_", "paypal_", "venmo_*_", "venmo_",
       "apple.com/bill~", "google~play~", "amzn~mktp~", "amzn_*_" >>

\* the number of characters of s that pat[i..] matches after the first j, or -1
RECURSIVE PrefixMatch(_, _, _, _)
PrefixMatch(pat, i, s, j) ==
    IF i > Len(pat) THEN j
    ELSE CASE Ch(pat, i) = "_" ->
                 PrefixMatch(pat, i + 1, s, j + LeadingCount(Drop(s, j), IsSpace))
           [] Ch(pat, i) = "~" ->
                 IF LeadingCount(Drop(s, j), IsSpace) = 0 THEN -1
                 ELSE PrefixMatch(pat, i + 1, s, j + LeadingCount(Drop(s, j), IsSpace))
           [] Ch(pat, i) = "^" ->
                 PrefixMatch(pat, i + 1, s, IF j < Len(s) /\ Ch(s, j + 1) = "-" THEN j + 1 ELSE j)
           [] OTHER ->
                 IF j < Len(s) /\ LowerCh(Ch(s, j + 1)) = Ch(pat, i)
                 THEN PrefixMatch(pat, i + 1, s, j + 1) ELSE -1

\* _PREFIX_RE.sub("", s)
_PREFIX_RE(s) ==
    LET hits == {k \in 1..Len(PrefixPatterns) : PrefixMatch(PrefixPatterns[k], 1, s, 0) >= 0}
    IN  IF hits = {} THEN s
        ELSE Drop(s, PrefixMatch(PrefixPatterns[CHOOSE k \in hits : \A h \in hits : k <= h], 1, s, 0))

\* \d{2}<sep>\d{2}(?:<sep>\d{2,4})? on the whole of t
ShortDate(t, sep) ==
    /\ Len(t) \in {5, 8, 9, 10}
    /\ AllDigits(SubSeq(t, 1, 2)) /\ Ch(t, 3) = sep /\ AllDigits(SubSeq(t, 4, 5))
    /\ Len(t) > 5 => (Ch(t, 6) = sep /\ AllDigits(Drop(t, 6)))

\* #?\w+ (\w* when empty is allowed) on the whole of t, after blanks
RefCode(t, empty) ==
    LET r == IF StartsWith(LStrip(t), "#") THEN Drop(LStrip(t), 1) ELSE LStrip(t)
    IN  /\ empty \/ r # ""
        /\ \A i \in 1..Len(r) : IsWord(Ch(r, i))

\* #\w[\w\-]*(?:\s.*)? on the whole of t
HashRef(t) ==
    LET P(c) == IsWord(c) \/ c = "-"
    IN  /\ Len(t) >= 2 /\ Ch(t, 1) = "#" /\ IsWord(Ch(t, 2))
        /\ \/ 1 + LeadingCount(Drop(t, 1), P) = Len(t)
           \/ IsSpace(Ch(t, 2 + LeadingCount(Drop(t, 1), P)))

\* [A-Z]{2}\s+\d{5}(?:-\d{4})? on the whole of t
StateZip(t) ==
    /\ Len(t) >= 8 /\ IsUpper(Ch(t, 1)) /\ IsUpper(Ch(t, 2)) /\ IsSpace(Ch(t, 3))
    /\ LET z == LStrip(Drop(t, 2))
       IN  /\ Len(z) \in {5, 10}
           /\ AllDigits(SubSeq(z, 1, 5))
           /\ Len(z) = 10 => (Ch(z, 6) = "-" /\ AllDigits(Drop(z, 6)))

\* pattern k of _TRAILING, without its leading \s+, on the whole of t
TrailingMatches(k, t) ==
    CASE k = 1 -> ShortDate(t, "/")
      [] k = 2 -> ShortDate(t, "-")
      [] k = 3 -> HashRef(t)
      [] k = 4 -> StartsWith(Lower(t), "ref") /\ RefCode(Drop(t, 3), FALSE)
      [] k = 5 -> StartsWith(Lower(t), "txn") /\ RefCode(Drop(t, 3), TRUE)
      [] k = 6 -> Lower(t) = "pmt"
      [] k = 7 -> Len(t) >= 6 /\ AllDigits(t)
      [] k = 8 -> StateZip(t)
      [] k = 9 -> Len(t) = 2 /\ IsUpper(Ch(t, 1)) /\ IsUpper(Ch(t, 2))
      [] OTHER -> FALSE

\* _TRAILING[k].sub("", s): the leftmost run of blanks that the pattern follows
\* to the end of s is cut with it
TrailingSub(k, s) ==
    LET cut == {i \in 1..Len(s) : /\ IsSpace(Ch(s, i))
                                  /\ TrailingMatches(k, LStrip(Drop(s, i - 1)))}
    IN  IF cut = {} THEN s ELSE SubSeq(s, 1, (CHOOSE i \in cut : \A h \in cut : i <= h) - 1)

\* for pat in _TRAILING: s = pat.sub("", s), from pattern k on
RECURSIVE TrailingPass(_, _)
TrailingPass(s, k) == IF k > 9 THEN s ELSE TrailingPass(TrailingSub(k, s), k + 1)

\* while prev != s
RECURSIVE TrailingStable(_)
TrailingStable(s) == IF TrailingPass(s, 1) = s THEN s ELSE TrailingStable(TrailingPass(s, 1))

\* _strip_trailing_noise
_strip_trailing_noise(s) ==
    LET P(c) == c = "*" \/ c = "#"
        t == Strip(TrailingStable(s))
    IN  Strip(SubSeq(t, 1, Len(t) - TrailingCount(t, P)))

\* step 2 of extract_merchant_candidate, for s.partition("*") = (before, "*", after)
StarStep(before, after) ==
    LET first_token == SubSeq(after, 1, LeadingCount(after, LAMBDA c : ~IsSpace(c)))
        has_digit == \E i \in 1..Len(first_token) : IsDigit(Ch(first_token, i))
    IN  IF after = "" \/ has_digit THEN before
        ELSE IF ~Contains(after, " ") /\ Len(after) <= 20 THEN before \o " " \o after
        ELSE IF Contains(after, " ") /\ ~has_digit THEN before \o " " \o after
        ELSE before

\* s.partition("*") and step 2
StarHandled(s) ==
    LET k == LeadingCount(s, LAMBDA c : c # "*")
    IN  IF ~Contains(s, "*") THEN s
        ELSE StarStep(Strip(SubSeq(s, 1, k)), Strip(Drop(s, k + 1)))

\* str.title()
Title(s) ==
    LET F(i) == IF ~IsAlpha(Ch(s, i)) THEN Ch(s, i)
                ELSE IF i > 1 /\ IsAlpha(Ch(s, i - 1)) THEN LowerCh(Ch(s, i))
                ELSE UpperCh(Ch(s, i))
    IN  Concat(F, 1, Len(s))

\* steps 1 to 5 of extract_merchant_candidate on the trimmed description
MerchantSteps(s) ==
    Title(Strip(CollapseSpaces(_strip_trailing_noise(StarHandled(Strip(_PREFIX_RE(s)))))))

\* the pipeline without its last line
ExtractWithoutFallback(raw) == IF Strip(raw) = "" THEN "" ELSE MerchantSteps(Strip(raw))

\* extract_merchant_candidate
extract_merchant_candidate(raw) ==
    IF Strip(raw) = "" THEN Strip(raw)
    ELSE IF MerchantSteps(Strip(raw)) # "" THEN MerchantSteps(Strip(raw))
    ELSE Strip(raw)

(***************************************************************************)
(* merchant_canonicalizer.py.  A table of transactions is given with the   *)
(* columns the pass reads and writes; the result has the table afterwards  *)
(* and whether db.commit() was called.                                     *)
(***************************************************************************)
\* _build_alias_map: {alias.lower(): canonical}; create_alias and update_alias
\* keep one row per key
_build_alias_map(aliases) ==
    [k \in {Lower(a.alias) : a \in aliases} |->
        (CHOOSE a \in aliases : Lower(a.alias) = k).canonical]

\* a lookup of the merchant as it is written
GetCanonicalVerbatim(merchant, alias_map) ==
    IF merchant \in DOMAIN alias_map THEN alias_map[merchant] ELSE merchant

\* get_canonical: alias_map.get(merchant.lower().strip(), merchant)
get_canonical(merchant, alias_map) ==
    IF Lower(Strip(merchant)) \in DOMAIN alias_map
    THEN alias_map[Lower(Strip(merchant))] ELSE merchant

\* get_canonical(tx.merchant, alias_map) if tx.merchant else None
NewCanonical(tx, alias_map) ==
    IF tx.merchant # None /\ tx.merchant # "" THEN get_canonical(tx.merchant, alias_map) ELSE None

\* apply_canonical_to_import
apply_canonical_to_import(txs, aliases, import_id) ==
    [txs |-> {IF t.import_id = import_id
              THEN [t EXCEPT !.merchant_canonical = NewCanonical(t, _build_alias_map(aliases))]
              ELSE t : t \in txs},
     commit |-> TRUE,
     updated |-> 0, total |-> 0]

\* rebuild_canonical_all
rebuild_canonical_all(txs, aliases) ==
    LET stale == {t \in txs : t.merchant_canonical # NewCanonical(t, _build_alias_map(aliases))}
    IN  [txs |-> {[t EXCEPT !.merchant_canonical = NewCanonical(t, _build_alias_map(aliases))] : t \in txs},
         commit |-> Cardinality(stale) # 0,
         updated |-> Cardinality(stale), total |-> Cardinality(txs)]

(***************************************************************************)
(* Direct applications of the functions of the services to arguments drawn *)
(* from small sets; the tables stay as they are.                           *)
(***************************************************************************)
tables == <<imports, transactions, rules, categories, writer, call, ncalls>>

\* the rows a rules table may hold: overlapping patterns, equal priorities,
\* an inactive rule and a regex that does not compile
RulePool ==
    { [id |-> 1, pattern |-> "amazon", match_type |-> "contains",
       category_id |-> 1, priority |-> 50, is_active |-> TRUE],
      [id |-> 2, pattern |-> "amazon prime", match_type |-> "contains",
       category_id |-> 7, priority |-> 80, is_active |-> TRUE],
      [id |-> 3, pattern |-> "AMAZON", match_type |-> "regex",
       category_id |-> 3, priority |-> 50, is_active |-> TRUE],
      [id |-> 4, pattern |-> "Amazon Prime Membership", match_type |-> "exact",
       category_id |-> 4, priority |-> 99, is_active |-> FALSE],
      [id |-> 5, pattern |-> "(", match_type |-> "regex",
       category_id |-> 5, priority |-> 95, is_active |-> TRUE],
      [id |-> 6, pattern |-> "prime", match_type |-> "contains",
       category_id |-> 6, priority |-> 80, is_active |-> TRUE] }

\* a regex rule whose pattern has a repetition count that re rejects
OverflowRule ==
    [id |-> 7, pattern |-> "a{4294967296}", match_type |-> "regex",
     category_id |-> 3, priority |-> 90, is_active |-> TRUE]

\* normalised descriptions
Descriptions == {"amazon prime membership", "amazon fresh", "rent"}

\* categorize(description_norm, _load_active_rules(db))
ApplyCategorize ==
    /\ probe = NoProbe
    /\ \E rs \in SUBSET RulePool, d \in Descriptions :
          probe' = [fn |-> "categorize", args |-> <<d, rs>>,
                    out |-> categorize(d, _load_active_rules(rs)), n |-> 0]
    /\ UNCHANGED tables

\* categorize under rules with patterns that do not compile: the exception that
\* leaves it, and its result when there is none
ApplyCategorizeInvalid ==
    /\ probe = NoProbe
    /\ \E rs \in SUBSET {r \in RulePool : r.id \in {1, 3, 4, 5}}, d \in Descriptions :
          probe' = [fn |-> "categorize (invalid patterns)", args |-> <<d, rs \cup {OverflowRule}>>,
                    out |-> [exc |-> CategorizeRaises(d, _load_active_rules(rs \cup {OverflowRule})),
                             result |-> categorize(d, _load_active_rules(rs \cup {OverflowRule}))],
                    n |-> 0]
    /\ UNCHANGED tables

\* lines of a statement of the section layout: the sentinel, a date line with
\* its amount, a date line without, continuation text without and with an
\* amount, a total
SectionLines ==
    {"Date Description Amount",
     "01/15/24 COFFEE SHOP 4.50",
     "01/16/24 CHECKCARD 0115 ACME",
     "HARDWARE STORE",
     "SEATTLE WA -12.00",
     "Total fees 3.00"}

MaxSectionLines == 4

\* _parse_section_based on the statements of at most MaxSectionLines lines
ApplyParseSectionBased ==
    /\ probe = NoProbe
    /\ \E lines \in UNION {[1..n -> SectionLines] : n \in 0..MaxSectionLines} :
          probe' = [fn |-> "_parse_section_based", args |-> <<lines>>,
                    out |-> _parse_section_based(lines), n |-> 0]
    /\ UNCHANGED tables

\* the cells of an amount, a debit or a credit column
AmountStrings ==
    {"", "0", "0.00", "-0", "42.99", "10.00", "50.00", "-5.00", "(5.00)", "$1,234.56",
     "abc", " 7 "}

\* parse_split_amount(debit_val, credit_val)
ApplySplitAmount ==
    /\ probe = NoProbe
    /\ \E d \in AmountStrings, c \in AmountStrings :
          probe' = [fn |-> "parse_split_amount", args |-> <<d, c>>,
                    out |-> parse_split_amount(d, c), n |-> 0]
    /\ UNCHANGED tables

MaxCents == 120

\* c / 100.0
FromCents(c) == Fin(c < 0, (IF c < 0 THEN -c ELSE c) * (Unit \div 100))

\* dollar amounts: every value up to a cent and a half, and whole cents
Amounts ==
    {Fin(neg, mag) : neg \in BOOLEAN, mag \in 0..(3 * (Unit \div 200))}
    \cup {FromCents(c) : c \in (-MaxCents)..MaxCents}

\* to_cents(amount)
ApplyToCents ==
    /\ probe = NoProbe
    /\ \E a \in Amounts :
          probe' = [fn |-> "to_cents", args |-> <<a>>, out |-> to_cents(a), n |-> 0]
    /\ UNCHANGED tables

\* parsed rows: batch, date, raw description, amount, currency
ParsedRows ==
    [import_id : {1, 2}, posted_date : {"2026-01-15", "soon"},
     raw_desc : {"STARBUCKS #123", "Starbucks  #123"},
     amount : {Fin(TRUE, 45 * (Unit \div 10)), Fin(FALSE, 45 * (Unit \div 10))},
     currency : {"USD", "EUR"}]

\* _insert_transaction for two rows, each into an empty table
ApplyInsertTransaction ==
    /\ probe = NoProbe
    /\ \E a \in {r \in ParsedRows : r.import_id = 1 /\ r.currency = "USD"}, b \in ParsedRows :
          probe' = [fn |-> "_insert_transaction", args |-> <<a, b>>,
                    out |-> <<_insert_transaction({}, a.import_id, a.posted_date, a.raw_desc,
                                                  a.amount, a.currency, {}),
                              _insert_transaction({}, b.import_id, b.posted_date, b.raw_desc,
                                                  b.amount, b.currency, {})>>,
                    n |-> 0]
    /\ UNCHANGED tables

\* lines of statements: the sentinel lines of the three layouts, transaction
\* lines of each, a total
StatementLines ==
    {"Date Description Location Amount",
     "  DATE  DESCRIPTION   LOCATION  AMOUNT ",
     "Date Description Amount Running Bal.",
     "Date Description Amount",
     "01/15/24 STARBUCKS #123 SAN FRANCISCO, CA 12.50",
     "02/01/24 RENT 1,290.88",
     "01/15/2024 COFFEE   4.50   100.00",
     "01/16/24 REFUND -3.00",
     "Total 1,290.88"}

MaxLines == 3

\* the statements of at most MaxLines lines
Statements == UNION {[1..n -> StatementLines] : n \in 0..MaxLines}

\* extract_txt on a statement
ApplyExtractTxt ==
    /\ probe = NoProbe
    /\ \E lines \in Statements :
          probe' = [fn |-> "extract_txt", args |-> <<lines>>, out |-> extract_txt(Text(lines)),
                    n |-> 0]
    /\ UNCHANGED tables

\* extract_pdf on the bytes of a file that is no PDF
ApplyExtractPdf ==
    /\ probe = NoProbe
    /\ \E content \in Files :
          probe' = [fn |-> "extract_pdf", args |-> <<content>>, out |-> extract_pdf(content),
                    n |-> 0]
    /\ UNCHANGED tables

\* the merchant_aliases tables: keys trimmed and lower-cased, one row per key
AliasTables ==
    {{},
     {[alias |-> "netflix", canonical |-> "Netflix"]},
     {[alias |-> "netflix", canonical |-> "Netflix"], [alias |-> "spotify usa", canonical |-> "Spotify"]}}

\* rows of the transactions table: a first row of batch 1 and a second row
MerchantRows(id, batches) ==
    [id : {id}, import_id : batches, merchant : {None, "NETFLIX", " Netflix ", "Hulu"},
     merchant_canonical : {None, "Netflix", "NETFLIX"}]

MerchantTables == {{a, b} : a \in MerchantRows(1, {1}), b \in MerchantRows(2, {1, 2})}

\* apply_canonical_to_import on a table
ApplyCanonicalToImport ==
    /\ probe = NoProbe
    /\ \E txs \in MerchantTables, aliases \in AliasTables, import_id \in {1, 2} :
          probe' = [fn |-> "apply_canonical_to_import", args |-> <<txs, aliases, import_id>>,
                    out |-> apply_canonical_to_import(txs, aliases, import_id), n |-> 0]
    /\ UNCHANGED tables

\* rebuild_canonical_all on a table
ApplyRebuildCanonicalAll ==
    /\ probe = NoProbe
    /\ \E txs \in MerchantTables, aliases \in AliasTables :
          probe' = [fn |-> "rebuild_canonical_all", args |-> <<txs, aliases, NoId>>,
                    out |-> rebuild_canonical_all(txs, aliases), n |-> 0]
    /\ UNCHANGED tables

NextApply ==
    \/ ApplyCanonicalToImport
    \/ ApplyRebuildCanonicalAll
    \/ ApplyExtractTxt
    \/ ApplyExtractPdf
    \/ ApplyCategorize
    \/ ApplyCategorizeInvalid
    \/ ApplySplitAmount
    \/ ApplyToCents
    \/ ApplyInsertTransaction

SpecApply == Init /\ [][NextApply]_vars

\* raw descriptions: the examples of the function, descriptions made of a
\* prefix, a reference or a trailing token only, and blank ones
RawDescriptions ==
    {"AMAZON.COM*1Z8Q4K AMZN.COM/BILL", "STARBUCKS #12345 SAN FRANCISCO CA",
     "SQ *LOCAL COFFEE SHOP SF CA", "ACH DEBIT NETFLIX.COM", "GOOGLE *CLOUD",
     "LYFT *RIDE 01-20 TXN", "PAYROLL DEPOSIT - ACME CORP",
     "", "   ", "SQ *", " paypal * ", "PayPal", "*123", "POS ", "ACH", "venmo*",
     "TST* 07/15", "* #", "**", "#", "AMAZON REFUND", "POS PURCHASE  -  CA",
     "DEBIT CARD PURCHASE SHELL OIL 574496 TX 75001", "x *AVERYLONGPRODUCTNAME12",
     "CHECK CARD PURCHASE", "APPLE.COM/BILL 866-712-7753 CA"}

\* extract_merchant_candidate on a raw description
ApplyExtractMerchantCandidate ==
    /\ probe = NoProbe
    /\ \E raw \in RawDescriptions :
          probe' = [fn |-> "extract_merchant_candidate", args |-> <<raw>>,
                    out |-> extract_merchant_candidate(raw), n |-> 0]
    /\ UNCHANGED tables

\* the applications of the line parser of sections and of the merchant extractor
NextParse ==
    \/ ApplyParseSectionBased
    \/ ApplyExtractMerchantCandidate

SpecParse == Init /\ [][NextParse]_vars

(***************************************************************************)
(* Properties of the import calls                                          *)
(***************************************************************************)
Done(c) == c.pc \in {"returned", "raised"}

\* an import of the bytes of call c was committed before the call
AlreadyImported(c) == \E i \in c.pre_imports : i.file_hash = compute_file_hash(c.content)

\* the transactions of that earlier import
ExistingRows(c) ==
    {t \in c.pre_transactions :
        \E i \in c.pre_imports : i.file_hash = compute_file_hash(c.content) /\ t.import_id = i.id}

\* the tables are as they were when call c began
Untouched(c) == imports = c.pre_imports /\ transactions = c.pre_transactions

\* two rows of a log have the same (parsed date, raw description, amount)
SameKey(a, b) ==
    /\ a.kind = "parsed" /\ b.kind = "parsed"
    /\ a.posted_date = b.posted_date /\ a.raw_desc = b.raw_desc /\ a.amount = b.amount

\* the rows call c has stored or is about to store
RowsOf(c) == Range(c.pending) \cup {t \in transactions : c.committed /\ t.import_id = c.import_id}

\* C1: in every variant, importing bytes that an earlier import committed creates
\* no ImportBatch and no Transaction and returns inserted = 0 with skipped equal
\* to the number of rows of that earlier import.
C1_IdempotentReimport ==
    \A p \in Procs :
        (Done(call[p]) /\ AlreadyImported(call[p])) =>
            /\ call[p].pc = "returned"
            /\ call[p].result.inserted = 0
            /\ call[p].result.skipped = Cardinality(ExistingRows(call[p]))
            /\ Untouched(call[p])

\* C2: within one call, a row with the same (parsed date, raw description,
\* amount) as an earlier row of the file is skipped and not inserted, and the
\* first such row is inserted unless its fingerprint is already persisted; the
\* three-row scenario file yields inserted = 2, skipped = 1.
C2_InBatchDedup ==
    \A p \in Procs :
        /\ \A j \in 1..Len(call[p].log) : \A i \in 1..(j - 1) :
              SameKey(call[p].log[i], call[p].log[j]) =>
                  /\ call[p].log[j].did = "skipped"
                  /\ Cardinality({t \in RowsOf(call[p]) :
                        t.fingerprint_hash = call[p].log[i].fingerprint}) <= 1
                  /\ \/ \E h \in 1..i : /\ SameKey(call[p].log[h], call[p].log[i])
                                        /\ call[p].log[h].did = "inserted"
                     \/ \E t \in call[p].pre_transactions :
                           t.fingerprint_hash = call[p].log[i].fingerprint
        /\ ( /\ call[p].pc = "returned" /\ call[p].content = ScenarioCsv
             /\ call[p].variant \in {"preset", "mapping"}
             /\ call[p].pre_transactions = {} /\ ~AlreadyImported(call[p]) ) =>
                 (call[p].result.inserted = 2 /\ call[p].result.skipped = 1)

C2_Witness ==
    \E p \in Procs :
        /\ call[p].pc = "returned" /\ call[p].content = ScenarioCsv
        /\ call[p].variant = "mapping"
        /\ Len(call[p].log) = 3
        /\ SameKey(call[p].log[1], call[p].log[2])
        /\ call[p].log[1].did = "inserted" /\ call[p].log[2].did = "skipped"
        /\ call[p].result.inserted = 2 /\ call[p].result.skipped = 1
        /\ Cardinality({t \in transactions : t.import_id = call[p].import_id}) = 2

\* C3: in sequential calls, a row whose fingerprint is that of a Transaction
\* persisted by an earlier import is skipped and not inserted, and the
\* transactions table never holds two rows with one fingerprint.
C3_CrossImportDedup ==
    /\ \A t1, t2 \in transactions : t1.fingerprint_hash = t2.fingerprint_hash => t1 = t2
    /\ \A p \in Procs : \A i \in 1..Len(call[p].log) :
          ( /\ call[p].log[i].kind = "parsed"
            /\ \E t \in call[p].pre_transactions :
                  t.fingerprint_hash = call[p].log[i].fingerprint ) =>
              /\ call[p].log[i].did = "skipped"
              /\ \A t \in RowsOf(call[p]) : t.fingerprint_hash # call[p].log[i].fingerprint

C3_Witness ==
    \E p \in Procs :
        /\ call[p].pc = "returned" /\ call[p].content = OverlapCsv
        /\ Len(call[p].log) >= 1
        /\ \E t \in call[p].pre_transactions :
              t.fingerprint_hash = call[p].log[1].fingerprint
        /\ call[p].log[1].did = "skipped"
        /\ call[p].result.inserted = 1

\* C4: when two import calls interleave, the committed tables hold at most one
\* ImportBatch per content hash and at most one Transaction per fingerprint.
C4_ConcurrentUniqueness ==
    /\ \A i1, i2 \in imports : i1.file_hash = i2.file_hash => i1 = i2
    /\ \A t1, t2 \in transactions : t1.fingerprint_hash = t2.fingerprint_hash => t1 = t2

\* two calls with the same bytes both passed the file-level check; one
\* committed, the INSERT of the other was rejected by the unique index
C4_Witness ==
    \E p, q \in Procs :
        /\ p # q /\ call[p].content = call[q].content
        /\ call[p].committed
        /\ ~AlreadyImported(call[q])
        /\ call[q].pc = "raised" /\ call[q].at = "flush" /\ call[q].exc = "IntegrityError"

\* C5: an error raised by the INSERT of the import record, by the processing of
\* a row or by the commit leaves the call with that error and rolls the batch
\* back: the tables are as they were before the call and the write lock is free.
C5_RollbackOnError ==
    \A p \in Procs :
        (call[p].pc = "raised" /\ call[p].at \in {"flush", "rows", "commit"}) =>
            /\ call[p].exc # None
            /\ Untouched(call[p])
            /\ \A i \in imports : i.file_hash # compute_file_hash(call[p].content)
            /\ writer = NoId

\* a row was pending when a later row raised
C5_Witness ==
    \E p \in Procs :
        /\ call[p].pc = "raised" /\ call[p].at = "rows"
        /\ call[p].inserted >= 1
        /\ Untouched(call[p])

\* the extraction of the PDF/text variant reports needs_manual_mapping
ExtractionFails(c) ==
    /\ c.variant = "pdf"
    /\ (IF EndsWith(Lower(c.filename), ".txt")
        THEN extract_txt(c.content) ELSE extract_pdf(c.content)).status # "preview"

\* a batch-level fatal condition holds of the request of call c
FatalCondition(c) ==
    \/ ExtractionFails(c)
    \/ /\ c.variant = "pdf"
       /\ ValidationError(c, extract_txt(c.content).headers)
    \/ /\ c.variant \in {"preset", "mapping"}
       /\ ValidationError(c, DictReader(c.content).headers)

\* C6 as stated: a batch-level fatal condition rejects the import with a
\* validation error before any row is processed and leaves the tables unchanged.
C6_FatalAlwaysRejects ==
    \A p \in Procs :
        (Done(call[p]) /\ FatalCondition(call[p])) =>
            /\ call[p].pc = "raised" /\ call[p].exc = "ValueError"
            /\ call[p].idx = 0
            /\ Untouched(call[p])

\* C6: a batch-level fatal condition leaves the tables unchanged and no row is
\* processed; the import is rejected with a validation error when no ImportBatch
\* has the hash of the file or when the condition is a failed extraction, and
\* otherwise the call returns the existing batch with inserted = 0.
C6_FatalRejectsUnlessImported ==
    \A p \in Procs :
        (Done(call[p]) /\ FatalCondition(call[p])) =>
            /\ call[p].idx = 0
            /\ Untouched(call[p])
            /\ IF ~AlreadyImported(call[p]) \/ ExtractionFails(call[p])
               THEN /\ call[p].pc = "raised" /\ call[p].exc = "ValueError"
                    /\ call[p].at \in {"extract", "validate"}
               ELSE /\ call[p].pc = "returned" /\ call[p].result.inserted = 0
                    /\ \E i \in imports : i.id = call[p].result.id

C6_Witness ==
    \E p \in Procs :
        /\ call[p].pc = "raised" /\ call[p].at = "validate"
        /\ call[p].variant = "mapping" /\ call[p].mapping = NoAmountMapping
        /\ call[p].content = ScenarioCsv
        /\ ~AlreadyImported(call[p])
        /\ Untouched(call[p])

\* C7: no content of the cells of a row makes the call fail: a call never
\* leaves its row loop with an error.
C7_RowNeverFailsBatch ==
    \A p \in Procs : ~(call[p].pc = "raised" /\ call[p].at = "rows")

\* the date cell of row i of call c
DateCell(c, i) ==
    Strip(Get(c.rows[i], IF c.variant = "preset" THEN c.cols.posted_date
                         ELSE IF c.variant = "paypal" THEN "Date"
                         ELSE c.mapping.posted_date))

\* a date cell that is not empty and that no known format parses
UnparseableDate(v) ==
    v # "" /\ \A i \in 1..Len(_DATE_FORMATS) : strptime(v, _DATE_FORMATS[i]) = {}

\* C8 as stated: a row whose date cell matches no known date format is skipped.
C8_UnparseableDateSkipped ==
    \A p \in Procs : \A i \in 1..Len(call[p].log) :
        UnparseableDate(DateCell(call[p], i)) => call[p].log[i].did = "skipped"

\* C8: a row whose date cell matches no known date format keeps the stripped
\* cell as its date; it is skipped only for a missing cell, an amount that does
\* not parse or a duplicate fingerprint, and otherwise a Transaction with that
\* text as posted_date is inserted.
C8_UnparseableDateKept ==
    \A p \in Procs : \A i \in 1..Len(call[p].log) :
        (call[p].pc # "raised" /\ UnparseableDate(DateCell(call[p], i))) =>
            /\ call[p].log[i].kind = "parsed" => call[p].log[i].posted_date = DateCell(call[p], i)
            /\ call[p].log[i].did = "inserted" =>
                  \E t \in RowsOf(call[p]) :
                      /\ t.posted_date = DateCell(call[p], i)
                      /\ t.fingerprint_hash = call[p].log[i].fingerprint
            /\ call[p].log[i].did = "skipped" =>
                  \/ call[p].log[i].kind = "skip"
                  \/ \E h \in 1..(i - 1) : call[p].log[h].fingerprint = call[p].log[i].fingerprint
                  \/ \E t \in call[p].pre_transactions :
                        t.fingerprint_hash = call[p].log[i].fingerprint

C8_Witness ==
    \E p \in Procs :
        /\ call[p].pc = "returned" /\ call[p].content = OverlapCsv
        /\ Len(call[p].log) >= 2
        /\ UnparseableDate(DateCell(call[p], 2))
        /\ call[p].log[2].did = "inserted"
        /\ \E t \in transactions : t.import_id = call[p].import_id /\ t.posted_date = "soon"

StepRank(step) ==
    CASE step = "dedup" -> 1 [] step = "validate" -> 2 [] step = "rows" -> 3
      [] step = "commit" -> 4 [] step = "post" -> 5 [] OTHER -> 0

\* C10: in every variant the steps of a call occur in the order file-dedup
\* check, validation, row processing, commit, post-processing; the file-dedup
\* check is the first step and post-processing follows a successful commit only.
C10_StepOrder ==
    \A p \in Procs :
        /\ call[p].trace # <<>> => call[p].trace[1] = "dedup"
        /\ \A i, j \in 1..Len(call[p].trace) :
              i < j => StepRank(call[p].trace[i]) < StepRank(call[p].trace[j])
        /\ \A i \in 1..Len(call[p].trace) : call[p].trace[i] = "post" => call[p].committed

\* the active rules of rs that match description d
Matching(d, rs) == {r \in rs : r.is_active /\ RuleMatches(r, d)}

\* rule r comes before rule q in (priority descending, id ascending) order
Before(r, q) == r.priority > q.priority \/ (r.priority = q.priority /\ r.id < q.id)

\* C11: categorize under the loaded rules returns the category and the id of the
\* matching active rule that comes first in (priority descending, id ascending)
\* order, and (None, None) when no active rule matches.
C11_FirstMatchWins ==
    probe.fn = "categorize" =>
        IF Matching(probe.args[1], probe.args[2]) = {}
        THEN probe.out = [category_id |-> NoId, rule_id |-> NoId]
        ELSE \E r \in Matching(probe.args[1], probe.args[2]) :
                /\ \A q \in Matching(probe.args[1], probe.args[2]) \ {r} : Before(r, q)
                /\ probe.out = [category_id |-> r.category_id, rule_id |-> r.id]

\* amazon/50 and amazon prime/80 on 'amazon prime membership'
C11_Witness ==
    /\ probe.fn = "categorize"
    /\ probe.args[1] = "amazon prime membership"
    /\ probe.args[2] = {r \in RulePool : r.id \in {1, 2}}
    /\ probe.out = [category_id |-> 7, rule_id |-> 2]

\* the request served last is the call in probe
Last(fn) == probe.fn = fn /\ probe.n = ncalls

\* C12: when apply_rules_to_all has returned, every transaction has the category
\* and the rule reference that categorize gives for its normalised description
\* under the active rules, with provenance 'rule' when a rule matches it,
\* whatever its assignment was before, manual ones included.
C12_RecategorizeAll ==
    Last("apply_rules_to_all") =>
        \A t \in transactions :
            /\ [category_id |-> t.category_id, rule_id |-> t.category_rule_id]
                  = categorize(t.description_norm, _load_active_rules(rules))
            /\ t.category_id # NoId => t.category_source = "rule"
            /\ t.category_id = NoId => t.category_source # "manual"
            /\ \E u \in probe.args[1] : u.id = t.id /\ u.fingerprint_hash = t.fingerprint_hash

\* a manual assignment was replaced by the one of a rule
C12_Witness ==
    /\ Last("apply_rules_to_all")
    /\ \E t \in probe.args[1], u \in transactions :
          /\ t.id = u.id
          /\ t.category_source = "manual" /\ t.category_rule_id = NoId
          /\ u.category_source = "rule" /\ u.category_id # t.category_id
          /\ u.category_rule_id # NoId

\* C13: no Transaction references a Category or a Rule that is not in its table.
C13_NoDanglingReference ==
    \A t \in transactions :
        /\ t.category_id # NoId => t.category_id \in categories
        /\ t.category_rule_id # NoId => \E r \in rules : r.id = t.category_rule_id

\* C20: when an ImportBatch is deleted, no Transaction references it and no
\* batch holds its content hash; an import of the same bytes that returns
\* afterwards is a new batch that holds every row the deleted batch held.
C20_DeleteReleasesBatch ==
    probe.fn = "delete_import" =>
        /\ Last("delete_import") =>
              /\ \A t \in transactions : t.import_id # probe.args[1].id
              /\ \A i \in imports : i.file_hash # probe.args[1].file_hash
              /\ \A t \in probe.out, u \in transactions : u.fingerprint_hash # t.fingerprint_hash
        /\ (/\ call[1].pc = "returned"
            /\ compute_file_hash(call[1].content) = probe.args[1].file_hash
            /\ ncalls = probe.n + 1) =>
              /\ call[1].committed
              /\ \E i \in imports : i.id = call[1].result.id /\ i.file_hash = probe.args[1].file_hash
              /\ call[1].result.inserted >= Cardinality(probe.out)
              /\ \A t \in probe.out : \E u \in transactions :
                    /\ u.fingerprint_hash = t.fingerprint_hash
                    /\ u.import_id = call[1].result.id

\* a batch with rows was deleted and the same bytes were imported again
C20_Witness ==
    /\ probe.fn = "delete_import" /\ probe.out # {}
    /\ ncalls = probe.n + 1
    /\ call[1].pc = "returned"
    /\ compute_file_hash(call[1].content) = probe.args[1].file_hash
    /\ call[1].result.inserted = Cardinality(probe.out)
    /\ call[1].result.inserted >= 1

\* row i of call c passes the PayPal filters; the cells are read trimmed and
\* the Type is compared in lower case, as the skip-list is written
PayPalPayment(c, i) ==
    /\ Strip(Get(c.rows[i], "Status")) = "Completed"
    /\ Strip(Get(c.rows[i], "Balance Impact")) = "Debit"
    /\ Lower(Strip(Get(c.rows[i], "Type"))) \notin _PAYPAL_SKIP_TYPES

\* C14: in the PayPal import every inserted Transaction comes from a row with
\* Status 'Completed', Balance Impact 'Debit' and a Type outside the skip-list,
\* and every other row is counted in skipped.
C14_PayPalFilters ==
    \A p \in Procs :
        call[p].variant = "paypal" =>
            /\ \A i \in 1..Len(call[p].log) :
                  /\ call[p].log[i].did = "inserted" => PayPalPayment(call[p], i)
                  /\ ~PayPalPayment(call[p], i) => call[p].log[i].did = "skipped"
            /\ call[p].skipped = Cardinality({i \in 1..Len(call[p].log) : call[p].log[i].did = "skipped"})
            /\ call[p].inserted = Cardinality({i \in 1..Len(call[p].log) : call[p].log[i].did = "inserted"})
            /\ \A t \in RowsOf(call[p]) : \E i \in 1..Len(call[p].log) :
                  /\ call[p].log[i].did = "inserted"
                  /\ call[p].log[i].fingerprint = t.fingerprint_hash
                  /\ PayPalPayment(call[p], i)

\* a PayPal export with a payment, a pending row, a withdrawal, a credit and a
\* lower-case status was imported
C14_Witness ==
    \E p \in Procs :
        /\ call[p].variant = "paypal" /\ call[p].pc = "returned" /\ call[p].committed
        /\ call[p].result.inserted = 1 /\ call[p].result.skipped = 4
        /\ \E t \in transactions : t.import_id = call[p].import_id

\* a == b on the results of float expressions, where two raised errors agree
SameResult(a, b) ==
    \/ a.k = "err" /\ b.k = "err"
    \/ a.k = "fin" /\ b.k = "fin" /\ FVal(a) = FVal(b)
    \/ a.k = "inf" /\ b.k = "inf" /\ a.neg = b.neg

\* an amount string is present: not zero-equivalent, and parse_amount reads it
Present(str) == Strip(str) \notin _ZERO /\ parse_amount(str).k # "err"

\* C15 as stated: for all amount strings d and c, parse_split_amount(d, "") is
\* -parse_amount(d), parse_split_amount("", c) is parse_amount(c),
\* parse_split_amount(d, c) is parse_amount(c) - parse_amount(d), and the call
\* raises when both sides are zero-equivalent.
C15_SplitLaws ==
    probe.fn = "parse_split_amount" =>
        /\ (Present(probe.args[1]) /\ probe.args[2] = "") =>
              SameResult(probe.out, FNeg(parse_amount(probe.args[1])))
        /\ (probe.args[1] = "" /\ Present(probe.args[2])) =>
              SameResult(probe.out, parse_amount(probe.args[2]))
        /\ (Present(probe.args[1]) /\ Present(probe.args[2])) =>
              SameResult(probe.out, FSub(parse_amount(probe.args[2]), parse_amount(probe.args[1])))
        /\ (Strip(probe.args[1]) \in _ZERO /\ Strip(probe.args[2]) \in _ZERO) =>
              probe.out = ValueError

\* C15: the split-amount laws hold of the absolute values: with a == |parse_amount(d)|
\* and b == |parse_amount(c)|, parse_split_amount(d, c) is b - a when both sides
\* are present, b when only the credit is, -a when only the debit is, and it
\* raises when neither is; a side is present when it is not zero-equivalent and
\* parse_amount reads it.
C15_SplitLawsOfAbsoluteValues ==
    probe.fn = "parse_split_amount" =>
        SameResult(probe.out,
            IF Present(probe.args[1]) /\ Present(probe.args[2])
            THEN FSub(FAbs(parse_amount(probe.args[2])), FAbs(parse_amount(probe.args[1])))
            ELSE IF Present(probe.args[2]) THEN FAbs(parse_amount(probe.args[2]))
            ELSE IF Present(probe.args[1]) THEN FNeg(FAbs(parse_amount(probe.args[1])))
            ELSE ValueError)

\* a negative debit cell alone gives the negated absolute value
C15_Witness ==
    /\ probe.fn = "parse_split_amount"
    /\ probe.args = <<"-5.00", "">>
    /\ probe.out = Fin(TRUE, 5 * Unit)
    /\ parse_amount("-5.00") = Fin(TRUE, 5 * Unit)

\* C16: to_cents gives the whole number of cents nearest to the amount, the one
\* farther from zero when the amount is half-way between two, with the sign of
\* the amount; so to_cents(c / 100.0) is c for every cent value c.
C16_RoundHalfUp ==
    probe.fn = "to_cents" =>
        /\ probe.out.exc = None
        /\ \E c \in 0..(2 * MaxCents) :
              /\ probe.out.v = IF probe.args[1].neg THEN -c ELSE c
              /\ 2 * (c * Unit - 100 * probe.args[1].mag) <= Unit
              /\ 2 * (100 * probe.args[1].mag - c * Unit) < Unit
        /\ \A c \in (-MaxCents)..MaxCents :
              probe.args[1] = FromCents(c) => probe.out.v = c

\* to_cents(-0.005) is -1
C16_Witness ==
    /\ probe.fn = "to_cents"
    /\ probe.args[1] = Fin(TRUE, Unit \div 200)
    /\ probe.out = [exc |-> None, v |-> -1]

\* C17: two rows with the same posted date, raw description and amount get the
\* same fingerprint, in the row stored as in the value computed, whatever their
\* batch and currency; rows with one normalised description get different
\* fingerprints when their raw descriptions differ.
C17_FingerprintOfThree ==
    probe.fn = "_insert_transaction" =>
        /\ \A k \in 1..2 :
              /\ probe.out[k].added
              /\ probe.out[k].tx[1].fingerprint_hash = probe.out[k].fingerprint
        /\ (/\ probe.args[1].posted_date = probe.args[2].posted_date
            /\ probe.args[1].raw_desc = probe.args[2].raw_desc
            /\ probe.args[1].amount = probe.args[2].amount) =>
              probe.out[1].fingerprint = probe.out[2].fingerprint
        /\ probe.args[1].raw_desc # probe.args[2].raw_desc =>
              probe.out[1].fingerprint # probe.out[2].fingerprint

\* equal date, raw description and amount in two batches and two currencies
C17_Witness ==
    /\ probe.fn = "_insert_transaction"
    /\ probe.args[1].import_id # probe.args[2].import_id
    /\ probe.args[1].currency # probe.args[2].currency
    /\ probe.args[1].posted_date = probe.args[2].posted_date
    /\ probe.args[1].raw_desc = probe.args[2].raw_desc
    /\ probe.args[1].amount = probe.args[2].amount
    /\ probe.out[1].fingerprint = probe.out[2].fingerprint
    /\ probe.out[1].tx[1].currency # probe.out[2].tx[1].currency

\* the statement of the last extract_txt has the year-end sentinel line
HasYearEndHeader ==
    \E i \in 1..Len(probe.args[1]) :
        Words(Lower(probe.args[1][i])) = <<"date", "description", "location", "amount">>

\* C18: a statement with the year-end sentinel line, wherever it stands and
\* whatever other sentinel it has, is parsed as a year-end summary: each of its
\* year-end lines gives one transaction, in order, and every amount is the
\* line's amount with a minus sign, parsed as a negative number.
C18_YearEndNegated ==
    (probe.fn = "extract_txt" /\ HasYearEndHeader) =>
        LET lines == probe.args[1]
            charges == SelectSeq(lines, LAMBDA l : l \in {"01/15/24 STARBUCKS #123 SAN FRANCISCO, CA 12.50",
                                                           "02/01/24 RENT 1,290.88"})
            rows == probe.out.rows
        IN  /\ Len(rows) = Len(charges)
            /\ probe.out.status = (IF charges = <<>> THEN "needs_manual_mapping" ELSE "preview")
            /\ \A k \in 1..Len(rows) :
                  /\ charges[k] = "01/15/24 STARBUCKS #123 SAN FRANCISCO, CA 12.50" =>
                        rows[k] = Row3("01/15/24", "STARBUCKS #123 SAN FRANCISCO, CA", "-12.50")
                  /\ charges[k] = "02/01/24 RENT 1,290.88" =>
                        rows[k] = Row3("02/01/24", "RENT", "-1290.88")
                  /\ parse_amount(rows[k].Amount).k = "fin"
                  /\ parse_amount(rows[k].Amount).neg

\* the year-end sentinel after a tabular sentinel and before the example line
C18_Witness ==
    /\ probe.fn = "extract_txt"
    /\ probe.args[1] = << "Date Description Amount Running Bal.",
                          "  DATE  DESCRIPTION   LOCATION  AMOUNT ",
                          "01/15/24 STARBUCKS #123 SAN FRANCISCO, CA 12.50" >>
    /\ probe.out.status = "preview"
    /\ probe.out.rows = <<Row3("01/15/24", "STARBUCKS #123 SAN FRANCISCO, CA", "-12.50")>>

Canonicalized == probe.fn \in {"apply_canonical_to_import", "rebuild_canonical_all"}

\* the row id is in the scope of the last canonicalization pass
InScope(t) == probe.fn = "rebuild_canonical_all" \/ t.import_id = probe.args[3]

\* the row of the table after the pass that has the id of t
After(t) == CHOOSE u \in probe.out.txs : u.id = t.id

\* C21: after a canonicalization pass every row in its scope has the canonical
\* name of the alias whose key is its merchant, trimmed and lower-cased, the
\* merchant itself when there is no such alias, and no canonical merchant when
\* it has no merchant; rows out of the scope and all other columns are as before.
C21_CanonicalOfAlias ==
    Canonicalized =>
        /\ {u.id : u \in probe.out.txs} = {t.id : t \in probe.args[1]}
        /\ \A t \in probe.args[1] :
              /\ [After(t) EXCEPT !.merchant_canonical = t.merchant_canonical] = t
              /\ ~InScope(t) => After(t) = t
              /\ (InScope(t) /\ t.merchant = None) => After(t).merchant_canonical = None
              /\ (InScope(t) /\ t.merchant # None) =>
                    \/ \E a \in probe.args[2] :
                          /\ a.alias = Lower(Strip(t.merchant))
                          /\ After(t).merchant_canonical = a.canonical
                    \/ /\ \A a \in probe.args[2] : a.alias # Lower(Strip(t.merchant))
                       /\ After(t).merchant_canonical = t.merchant

\* a row written " Netflix " gets the canonical name of the alias netflix, a row
\* without alias keeps its merchant, a row of another batch is left alone
C21_Witness ==
    /\ probe.fn = "apply_canonical_to_import"
    /\ probe.args[3] = 1
    /\ \E t \in probe.args[1] :
          /\ t.import_id = 1 /\ t.merchant = " Netflix " /\ t.merchant_canonical = None
          /\ After(t).merchant_canonical = "Netflix"
    /\ \E t \in probe.args[1] :
          /\ t.import_id = 2 /\ t.merchant = "NETFLIX" /\ After(t).merchant_canonical = None

\* C22: a canonicalization pass calls db.commit() only if the canonical merchant
\* of at least one row changed.
C22_CommitOnlyOnChange ==
    (Canonicalized /\ probe.out.commit) => probe.out.txs # probe.args[1]

\* the last request served is the import of session 1, committed and past its
\* categorization pass
ImportCategorized ==
    /\ probe.n < ncalls
    /\ call[1].committed
    /\ call[1].pc \in {"canonicalize", "returned"}

\* C23: after the categorization pass of an import the rows of every other
\* batch are as they were when the call began, the new rows all belong to the
\* new batch, and with no active rule the new rows have no category, no
\* provenance and no rule.
C23_CategorizeOwnBatchOnly ==
    ImportCategorized =>
        /\ call[1].pre_transactions \subseteq transactions
        /\ \A t \in transactions \ call[1].pre_transactions : t.import_id = call[1].import_id
        /\ (\A r \in rules : ~r.is_active) =>
              \A t \in transactions \ call[1].pre_transactions :
                  /\ t.category_id = NoId
                  /\ t.category_source = None
                  /\ t.category_rule_id = NoId

\* a second import whose pass categorised a row of its own while a row of the
\* first batch keeps the category of a rule deleted in between
C23_Witness ==
    /\ ImportCategorized
    /\ \E t \in call[1].pre_transactions :
          /\ t.category_id # NoId /\ t.category_rule_id = NoId
          /\ t.import_id # call[1].import_id
          /\ t \in transactions
    /\ \E t \in transactions : t.import_id = call[1].import_id /\ t.category_source = "rule"

\* C24: categorize under rules with invalid regex patterns raises nothing and
\* returns the first active rule with a valid pattern that matches, in order;
\* inactive rules and rules that do not compile are passed over.
C24_InvalidRegexSkipped ==
    probe.fn = "categorize (invalid patterns)" =>
        /\ probe.out.exc = None
        /\ LET valid == {r \in probe.args[2] : r.match_type = "regex" => RegexError(r.pattern) = None}
           IN  IF Matching(probe.args[1], valid) = {}
               THEN probe.out.result = [category_id |-> NoId, rule_id |-> NoId]
               ELSE \E r \in Matching(probe.args[1], valid) :
                       /\ \A q \in Matching(probe.args[1], valid) \ {r} : Before(r, q)
                       /\ probe.out.result = [category_id |-> r.category_id, rule_id |-> r.id]

\* the lines of SectionLines that open a transaction, with the description and
\* the amount each carries
OpensTransaction(l) == l \in {"01/15/24 COFFEE SHOP 4.50", "01/16/24 CHECKCARD 0115 ACME"}

OpeningOf(l) ==
    IF l = "01/15/24 COFFEE SHOP 4.50" THEN Row3("01/15/24", "COFFEE SHOP", "4.50")
    ELSE Row3("01/16/24", "CHECKCARD 0115 ACME", "")

\* the lines of SectionLines that continue a transaction
Continues(l) == l \in {"HARDWARE STORE", "SEATTLE WA -12.00"}

\* the transaction t after the continuation lines ls[k..]: a line gives the
\* amount, and only its text, when the transaction has none yet
RECURSIVE Continued(_, _, _)
Continued(t, ls, k) ==
    IF k > Len(ls) THEN t
    ELSE IF t.Amount = "" /\ ls[k] = "SEATTLE WA -12.00"
    THEN Continued(Row3(t.Date, t.Description \o " SEATTLE WA", "-12.00"), ls, k + 1)
    ELSE Continued(Row3(t.Date, t.Description \o " " \o ls[k], t.Amount), ls, k + 1)

\* the transaction opened at line i of lines: its continuation lines are those
\* up to the next line that opens a transaction
TransactionAt(lines, i) ==
    LET next == IF \E j \in (i + 1)..Len(lines) : OpensTransaction(lines[j])
                THEN CHOOSE j \in (i + 1)..Len(lines) :
                        /\ OpensTransaction(lines[j])
                        /\ \A k \in (i + 1)..(j - 1) : ~OpensTransaction(lines[k])
                ELSE Len(lines) + 1
    IN  Continued(OpeningOf(lines[i]),
                  SelectSeq(SubSeq(lines, i + 1, next - 1), Continues), 1)

\* the transactions of lines opened from line i on, after the sentinel at line s
RECURSIVE SectionTransactions(_, _, _)
SectionTransactions(lines, s, i) ==
    IF i > Len(lines) THEN <<>>
    ELSE (IF i > s /\ OpensTransaction(lines[i]) /\ TransactionAt(lines, i).Amount # ""
          THEN <<TransactionAt(lines, i)>> ELSE <<>>)
         \o SectionTransactions(lines, s, i + 1)

\* C25: the section parser ignores the lines before the first sentinel; after
\* it every date line opens one transaction, every continuation line is added
\* to the transaction opened last and to no other, and the transactions that
\* obtained an amount are returned in order.
C25_SectionContinuation ==
    probe.fn = "_parse_section_based" =>
        LET lines == probe.args[1]
        IN  IF \A i \in 1..Len(lines) : lines[i] # "Date Description Amount"
            THEN probe.out = <<>>
            ELSE probe.out =
                    SectionTransactions(lines,
                        CHOOSE s \in 1..Len(lines) :
                            /\ lines[s] = "Date Description Amount"
                            /\ \A k \in 1..(s - 1) : lines[k] # "Date Description Amount",
                        1)

\* a transaction that gets its amount from its second continuation line
C25_Witness ==
    /\ probe.fn = "_parse_section_based"
    /\ probe.args[1] = << "Date Description Amount", "01/16/24 CHECKCARD 0115 ACME",
                          "HARDWARE STORE", "SEATTLE WA -12.00" >>
    /\ probe.out = <<Row3("01/16/24", "CHECKCARD 0115 ACME HARDWARE STORE SEATTLE WA", "-12.00")>>

\* C26: for a description that is not blank extract_merchant_candidate returns
\* a string that is not empty: the result of its steps when they leave
\* something, the trimmed description itself when they leave nothing; a blank
\* description gives the empty string.
C26_MerchantNeverEmpty ==
    probe.fn = "extract_merchant_candidate" =>
        LET raw == probe.args[1]
        IN  /\ Strip(raw) = "" => probe.out = ""
            /\ Strip(raw) # "" =>
                  /\ probe.out # ""
                  /\ Strip(probe.out) = probe.out
                  /\ MerchantSteps(Strip(raw)) = "" => probe.out = Strip(raw)
                  /\ MerchantSteps(Strip(raw)) # "" => probe.out = MerchantSteps(Strip(raw))

\* a description that is a prefix only: the steps leave nothing
C26_Witness ==
    /\ probe.fn = "extract_merchant_candidate"
    /\ probe.args[1] = " paypal * "
    /\ _PREFIX_RE(Strip(probe.args[1])) = ""
    /\ probe.out = "paypal *"

(***************************************************************************)
(* The counters of an import                                               *)
(***************************************************************************)
\* the transactions the tables hold for the batch of call c
OwnedBy(c) == {t \in transactions : t.import_id = c.import_id}

\* C27: an import that is not answered by the file-level dedup and returns has
\* inserted + skipped equal to the number of data rows read from the file, and
\* from its commit on inserted is the number of Transactions of the new batch.
C27_CountersAddUp ==
    \A p \in Procs :
        LET c == call[p]
        IN  /\ (c.pc = "returned" /\ ~AlreadyImported(c)) =>
                  /\ c.committed
                  /\ c.result.inserted + c.result.skipped = Len(c.rows)
                  /\ c.result.inserted = Cardinality(OwnedBy(c))
            /\ (c.committed /\ c.pc \in {"categorize", "canonicalize"}) =>
                  /\ c.inserted + c.skipped = Len(c.rows)
                  /\ c.inserted = Cardinality(OwnedBy(c))

\* an import returned with rows of both kinds, stored and skipped
C27_Witness ==
    \E p \in Procs :
        /\ call[p].pc = "returned" /\ ~AlreadyImported(call[p])
        /\ call[p].result.inserted > 0 /\ call[p].result.skipped > 0
        /\ \E k \in 1..Len(call[p].log) : call[p].log[k].kind = "skip"
        /\ \E k \in 1..Len(call[p].log) :
              call[p].log[k].kind = "parsed" /\ call[p].log[k].did = "skipped"

(***************************************************************************)
(* Batches and the rows of their files                                     *)
(***************************************************************************)
\* the fingerprints of the rows that parse, for each upload of the client (the
\* uploads go through import_csv with the generic source type)
FileFingerprints ==
    [content \in {r.content : r \in AdminRequests} |->
        LET reader == DictReader(content)
            cols   == ResolvedColumns(reader.headers, "generic")
            parsed == {o \in {PresetRow(reader.rows[k], cols) : k \in 1..Len(reader.rows)} :
                          o.kind = "parsed"}
        IN  {compute_fingerprint(o.posted_date, o.raw_desc, o.amount) : o \in parsed}]

\* C28: after any sequence of imports and batch deletions, every row that parsed
\* of the file of every ImportBatch that exists has a persisted Transaction with
\* its fingerprint, so deleting a batch never removes the only persisted copy of
\* a row that the file of another existing batch contains.
C28_RowsOfExistingBatchesPersist ==
    \A imp \in imports :
        \A fingerprint \in FileFingerprints[imp.file_hash[2]] :
            \E tx \in transactions : tx.fingerprint_hash = fingerprint

(***************************************************************************)
(* Category and provenance                                                 *)
(***************************************************************************)
\* C29: after any sequence of imports, categorization passes, manual category
\* edits, rule deletions and category deletions, a transaction has a category
\* exactly when its provenance is "rule" or "manual"; one whose provenance is
\* "uncategorized" or null has none.
C29_CategoryIffProvenance ==
    \A tx \in transactions :
        tx.category_id # NoId <=> tx.category_source \in {"rule", "manual"}

(***************************************************************************)
(* Stored fields of the persisted rows                                     *)
(***************************************************************************)
\* C30: after any sequence of imports no two persisted Transactions agree on
\* posted_date, description_raw and amount_cents: rows that would be stored
\* alike are recognised as duplicates, also when their amounts differ below one
\* cent or in the sign of zero.
C30_StoredFieldsUnique ==
    \A t1, t2 \in transactions :
        (/\ t1.posted_date = t2.posted_date
         /\ t1.description_raw = t2.description_raw
         /\ t1.amount_cents = t2.amount_cents) => t1 = t2

=============================================================================
